---------------------------- MODULE Spec2Model ----------------------------
(***************************************************************************)
(* Financial consolidation backend: spreadsheet ingestion into rawData and *)
(* final_structured, category mapping (code_master), FX rate resolution    *)
(* (entity_forex_rates preferred over forex_master) and de-duplication.    *)
(*                                                                         *)
(* Conventions of the model                                                *)
(*  - a text value is a TLA+ string; Chars gives its characters, so that   *)
(*    strip / TRIM / lower / LOWER / "in" are computed, not assumed;       *)
(*  - a nullable number is <<>> (NULL / None) or <<n>>;                    *)
(*  - a ledger amount is an integer number of cents (decimal(18,2));       *)
(*  - an FX rate is an integer number of half units (80.0 is 160), so the  *)
(*    average of two whole rates is exact.                                 *)
(***************************************************************************)
EXTENDS Integers, Sequences, FiniteSets, TLC

VARIABLES
    rawData,            \* table rawData
    final_structured,   \* table final_structured
    code_master,        \* table code_master
    forex_master,       \* table forex_master (legacy rates, append-only)
    entity_forex_rates, \* table entity_forex_rates (entity + currency + FY)
    next_id,            \* AUTO_INCREMENT counters: [sl_no, RecordID, code_id, fx_id]
    entities,           \* table entity_master as the entity routes maintain it
    financial_years,    \* table financial_year_master as its routes maintain it
    req,                \* the in-flight upload requests: request id -> locals of upload_file
    snap,               \* per scope: the last completed upload and the rows it left
    probe               \* what the last step applied: a function with its argument and
                        \* result, or the sync of GET /data with the rows it changed

vars == <<rawData, final_structured, code_master, forex_master,
          entity_forex_rates, next_id, entities, financial_years, req, snap, probe>>

\* the two master tables that uploads, mappings and rates never write
masters == <<entities, financial_years>>

----------------------------------------------------------------------------
(* NULL and nullable numbers *)

NULLT == "<NULL>"
None == <<>>
Some(n) == <<n>>
IsNone(x) == x = <<>>
Val(x) == x[1]

Abs(n) == IF n < 0 THEN -n ELSE n

\* F applied to the value of e: a local variable assigned once and read by F
Let(e, F(_)) == CHOOSE y \in {F(x) : x \in {e}} : TRUE

----------------------------------------------------------------------------
(* Text *)

UpperLetters == <<"A","B","C","D","E","F","G","H","I","J","K","L","M",
                  "N","O","P","Q","R","S","T","U","V","W","X","Y","Z">>
LowerLetters == <<"a","b","c","d","e","f","g","h","i","j","k","l","m",
                  "n","o","p","q","r","s","t","u","v","w","x","y","z">>

LowerChar(c) ==
    IF \E i \in 1..26 : UpperLetters[i] = c
    THEN LowerLetters[CHOOSE i \in 1..26 : UpperLetters[i] = c]
    ELSE c

UpperChar(c) ==
    IF \E i \in 1..26 : LowerLetters[i] = c
    THEN UpperLetters[CHOOSE i \in 1..26 : LowerLetters[i] = c]
    ELSE c

LowerSeq(s) == [i \in 1..Len(s) |-> LowerChar(s[i])]
UpperSeq(s) == [i \in 1..Len(s) |-> UpperChar(s[i])]

RECURSIVE LStrip(_)
LStrip(s) == IF s # <<>> /\ Head(s) = " " THEN LStrip(Tail(s)) ELSE s

RECURSIVE RStrip(_)
RStrip(s) ==
    IF s # <<>> /\ s[Len(s)] = " " THEN RStrip(SubSeq(s, 1, Len(s) - 1)) ELSE s

\* str.strip() and SQL TRIM(): leading and trailing blanks removed
Strip(s) == RStrip(LStrip(s))

\* needle in hay
Contains(hay, needle) ==
    \E i \in 1..(Len(hay) - Len(needle) + 1) :
        SubSeq(hay, i, i + Len(needle) - 1) = needle

EndsWith(s, suffix) ==
    /\ Len(s) >= Len(suffix)
    /\ SubSeq(s, Len(s) - Len(suffix) + 1, Len(s)) = suffix

\* The characters of every text value that occurs in the model.
Chars ==
    ("" :> <<>>) @@
    ("Cash" :> <<"C","a","s","h">>) @@
    ("CASH" :> <<"C","A","S","H">>) @@
    (" Cash " :> <<" ","C","a","s","h"," ">>) @@
    ("Sales" :> <<"S","a","l","e","s">>) @@
    ("April" :> <<"A","p","r","i","l">>) @@
    ("March" :> <<"M","a","r","c","h">>) @@
    ("May" :> <<"M","a","y">>) @@
    ("Apr" :> <<"A","p","r">>) @@
    ("Opening" :> <<"O","p","e","n","i","n","g">>) @@
    ("E1" :> <<"E","1">>) @@
    ("E2" :> <<"E","2">>) @@
    ("EUR" :> <<"E","U","R">>) @@
    ("EURIN" :> <<"E","U","R","I","N">>) @@
    ("USD" :> <<"U","S","D">>) @@
    ("USDIN" :> <<"U","S","D","I","N">>) @@
    ("Balance Sheet" :> <<"B","a","l","a","n","c","e"," ","S","h","e","e","t">>) @@
    ("Profit and Loss" :> <<"P","r","o","f","i","t"," ","a","n","d"," ","L","o","s","s">>) @@
    ("P&L Items" :> <<"P","&","L"," ","I","t","e","m","s">>) @@
    (" PROFIT & LOSS" :> <<" ","P","R","O","F","I","T"," ","&"," ","L","O","S","S">>) @@
    ("Assets" :> <<"A","s","s","e","t","s">>) @@
    ("Income" :> <<"I","n","c","o","m","e">>) @@
    ("Sub" :> <<"S","u","b">>)

Vocabulary == DOMAIN Chars

\* the text value with these characters ("?" when the model has no name for it)
Str(s) == IF \E t \in Vocabulary : Chars[t] = s
          THEN CHOOSE t \in Vocabulary : Chars[t] = s
          ELSE "?"

\* lower() and LOWER(TRIM()) of every text value, computed once
Lowered == [t \in Vocabulary |-> LowerSeq(Chars[t])]
Normalized == [t \in Vocabulary |-> LowerSeq(Strip(Chars[t]))]

\* a = b of SQL under the tables' collation, which ignores case
SqlEq(a, b) == Lowered[a] = Lowered[b]

\* LOWER(TRIM(x)) of SQL, str(x).strip().lower() of Python
Norm(t) == Normalized[t]

\* (x or "").strip(): NULL counts as the empty text
OrEmpty(t) == IF t = NULLT THEN "" ELSE t

\* x IS NULL OR TRIM(x) = ''
IsBlank(t) == t = NULLT \/ Strip(Chars[t]) = <<>>


----------------------------------------------------------------------------
(* Spreadsheet cells: parse_amount_and_type, parse_plain_number *)

DigitChars == <<"0","1","2","3","4","5","6","7","8","9">>
IsDigit(c) == \E i \in 1..10 : DigitChars[i] = c
DigitVal(c) == (CHOOSE i \in 1..10 : DigitChars[i] = c) - 1

\* [\d,]
IsNumCh(c) == IsDigit(c) \/ c = ","

\* the regex -?[\d,]+\.?\d* can match starting at position i
MatchStartsAt(s, i) ==
    \/ IsNumCh(s[i])
    \/ s[i] = "-" /\ i < Len(s) /\ IsNumCh(s[i + 1])

\* the last position of the longest run of characters accepted by the class
\* (digits, or digits and commas when commas is TRUE) starting at j; j - 1 if none
RECURSIVE RunEnd(_, _, _)
RunEnd(s, j, commas) ==
    IF j <= Len(s) /\ (IsDigit(s[j]) \/ (commas /\ s[j] = ","))
    THEN RunEnd(s, j + 1, commas)
    ELSE j - 1

\* re.search(r'-?[\d,]+\.?\d*', s).group(), <<>> when there is no match
RegexNumber(s) ==
    IF ~ \E i \in 1..Len(s) : MatchStartsAt(s, i) THEN <<>>
    ELSE Let(CHOOSE k \in 1..Len(s) :
                 /\ MatchStartsAt(s, k)
                 /\ \A m \in 1..(k - 1) : ~ MatchStartsAt(s, m), LAMBDA i :
         Let(RunEnd(s, IF s[i] = "-" THEN i + 1 ELSE i, TRUE), LAMBDA e1 :
         Let(IF e1 < Len(s) /\ s[e1 + 1] = "." THEN e1 + 1 ELSE e1, LAMBDA e2 :
             SubSeq(s, i, IF e2 > e1 THEN RunEnd(s, e2 + 1, FALSE) ELSE e1))))

\* str.replace(',', '')
RemoveCommas(s) == SelectSeq(s, LAMBDA c : c # ",")

RECURSIVE DigitsValue(_)
DigitsValue(d) ==
    IF d = <<>> THEN 0
    ELSE 10 * DigitsValue(SubSeq(d, 1, Len(d) - 1)) + DigitVal(d[Len(d)])

\* float(x) of a text made of an optional '-', digits, an optional '.', digits:
\* None for a ValueError (no digit at all), else the value in cents
\* (at most two fraction digits are read: decimal(18,2)).
ToFloat(t) ==
    Let(t # <<>> /\ Head(t) = "-", LAMBDA neg :
    Let(IF neg THEN Tail(t) ELSE t, LAMBDA body :
    Let(IF \E i \in 1..Len(body) : body[i] = "."
        THEN CHOOSE i \in 1..Len(body) : body[i] = "."
        ELSE Len(body) + 1, LAMBDA dot :
    Let(SubSeq(body, 1, dot - 1), LAMBDA ip :
    Let(SubSeq(body, dot + 1, Len(body)), LAMBDA fp :
    Let(IF Len(fp) = 0 THEN 0
        ELSE IF Len(fp) = 1 THEN 10 * DigitVal(fp[1])
        ELSE 10 * DigitVal(fp[1]) + DigitVal(fp[2]), LAMBDA f2 :
    Let(100 * DigitsValue(ip) + f2, LAMBDA mag :
        IF ip = <<>> /\ fp = <<>> THEN None
        ELSE Some(IF neg THEN -mag ELSE mag))))))))

\* cell_str == '' or cell_str.lower() in ['nan', 'none', 'null']
IsNaText(s) ==
    LowerSeq(s) \in {<<>>, <<"n","a","n">>, <<"n","o","n","e">>, <<"n","u","l","l">>}

\* parse_plain_number(cell_value): the signed number, or None
parse_plain_number(cell) ==
    Let(Strip(cell), LAMBDA cell_str :
    Let(RegexNumber(cell_str), LAMBDA m :
        IF IsNaText(cell_str) \/ m = <<>> THEN None
        ELSE Let(RemoveCommas(m), ToFloat)))

\* the mutant: Dr/Cr read from the text marker, as the code did before
parse_amount_and_type_TextMarker(cell) ==
    Let(Strip(cell), LAMBDA cell_str :
    Let(RegexNumber(cell_str), LAMBDA m :
    Let(IF m = <<>> THEN None ELSE Let(RemoveCommas(m), ToFloat), LAMBDA v :
        IF IsNaText(cell_str) \/ IsNone(v) THEN <<None, NULLT>>
        ELSE IF Contains(LowerSeq(cell_str), <<"c","r">>) THEN <<Some(Abs(Val(v))), "Cr">>
        ELSE <<Some(Abs(Val(v))), "Dr">>)))

\* parse_amount_and_type(cell_value): <<amount, type>>, type from the sign only
parse_amount_and_type(cell) ==
    Let(Strip(cell), LAMBDA cell_str :
    Let(RegexNumber(cell_str), LAMBDA m :
    Let(IF m = <<>> THEN None ELSE Let(RemoveCommas(m), ToFloat), LAMBDA v :
        IF IsNaText(cell_str) \/ IsNone(v) THEN <<None, NULLT>>
        ELSE IF Val(v) < 0 THEN <<Some(Abs(Val(v))), "Cr">>
        ELSE <<Some(Val(v)), "Dr">>)))

\* calculate_amt_tb_lc(amount, amount_type): Dr positive, Cr negative
calculate_amt_tb_lc(amount, amount_type) ==
    IF IsNone(amount) \/ amount_type = NULLT THEN None
    ELSE IF amount_type = "Dr" THEN Some(Abs(Val(amount)))
    ELSE Some(-Abs(Val(amount)))

----------------------------------------------------------------------------
(* Financial year labels: "2024-25" is <<2024, 25>>, "2024" is <<2024>> *)

format_financial_year(ending_year) == <<ending_year, (ending_year + 1) % 100>>

\* int(parts[0]) of "2024-25", int("2024") of "2024"
parse_financial_year(fy_string) == fy_string[1]

----------------------------------------------------------------------------
(* Rate convention: classification and effective rate *)

PROFIT_AND_LOSS == <<"p","r","o","f","i","t"," ","a","n","d"," ","l","o","s","s">>
PROFIT_AMP_LOSS == <<"p","r","o","f","i","t"," ","&"," ","l","o","s","s">>
P_AND_L == <<"p","&","l">>
BALANCE_SHEET == <<"b","a","l","a","n","c","e"," ","s","h","e","e","t">>

\* is_balance_sheet of _calculate_and_save_forex_rates / _apply_forex_rates
is_balance_sheet(mainCategory, category1) ==
    \/ Contains(Norm(OrEmpty(category1)), BALANCE_SHEET)
    \/ Contains(Norm(OrEmpty(mainCategory)), BALANCE_SHEET)

\* is_pl of _calculate_and_save_forex_rates / _apply_forex_rates
is_pl(mainCategory, category1) ==
    \E t \in {Norm(OrEmpty(category1)), Norm(OrEmpty(mainCategory))} :
        \/ Contains(t, PROFIT_AND_LOSS)
        \/ Contains(t, PROFIT_AMP_LOSS)
        \/ Contains(t, P_AND_L)

\* Python "a or b" on nullable numbers: None and 0 are falsy
PyOr(a, b) == IF IsNone(a) \/ Val(a) = 0 THEN b ELSE a

\* the mutant: the opening rate used for rows that are not P&L
EffectiveRate_OpeningForBS(pl, fx) ==
    LET opening_rate == PyOr(fx.opening_rate, fx.initial_rate)
        closing_rate == PyOr(fx.closing_rate, fx.latest_rate)
    IN  IF pl
        THEN IF ~IsNone(opening_rate) /\ ~IsNone(closing_rate)
             THEN Some((Val(opening_rate) + Val(closing_rate)) \div 2)
             ELSE closing_rate
        ELSE opening_rate

\* the rate branch of _calculate_and_save_forex_rates and _apply_forex_rates;
\* None when the row is skipped (continue)
EffectiveRate(pl, fx) ==
    LET opening_rate == PyOr(fx.opening_rate, fx.initial_rate)
        closing_rate == PyOr(fx.closing_rate, fx.latest_rate)
    IN  IF pl
        THEN IF ~IsNone(opening_rate) /\ ~IsNone(closing_rate)
             THEN Some((Val(opening_rate) + Val(closing_rate)) \div 2)
             ELSE closing_rate
        ELSE closing_rate

----------------------------------------------------------------------------
(* Tables *)

\* entity_master: the entities are fixed here; both report in the same currency
entity_master ==
    { [ent_id |-> 1, ent_code |-> "E1", lcl_curr |-> "EUR"],
      [ent_id |-> 2, ent_code |-> "E2", lcl_curr |-> "EUR"] }

\* the rows of entity_master with the parent reference: none has a parent
InitialEntities ==
    {[ent_id |-> e.ent_id, lcl_curr |-> e.lcl_curr, parent_entity_id |-> None] :
        e \in entity_master}

\* get_entity_details(ent_id): <<row>> or <<>>
get_entity_details(ent_id) ==
    IF \E e \in entity_master : e.ent_id = ent_id
    THEN <<CHOOSE e \in entity_master : e.ent_id = ent_id>>
    ELSE <<>>

\* SELECT ent_id FROM entity_master WHERE ent_code = %s LIMIT 1
EntityIdOfCode(entity_code) ==
    IF \E e \in entity_master : e.ent_code = entity_code
    THEN Some((CHOOSE e \in entity_master : e.ent_code = entity_code).ent_id)
    ELSE None

\* the database as one value, for the operators that model statements
DB == [raw |-> rawData, fs |-> final_structured, cm |-> code_master,
       fx |-> forex_master, efr |-> entity_forex_rates, ids |-> next_id]

\* the category columns of code_master and final_structured
Categories(r) == [mainCategory |-> r.mainCategory, category1 |-> r.category1,
                  category2 |-> r.category2, category3 |-> r.category3,
                  category4 |-> r.category4, category5 |-> r.category5]

WithCategories(r, c) ==
    [r EXCEPT !.mainCategory = c.mainCategory, !.category1 = c.category1,
              !.category2 = c.category2, !.category3 = c.category3,
              !.category4 = c.category4, !.category5 = c.category5]

NoCategories == [mainCategory |-> NULLT, category1 |-> NULLT, category2 |-> NULLT,
                 category3 |-> NULLT, category4 |-> NULLT, category5 |-> NULLT]

----------------------------------------------------------------------------
(* FX rate resolution: _build_forex_cache, _calculate_and_save_forex_rates *)

\* date.today(), CURDATE()
today == <<2024, 6, 15>>

\* a <= b on dates <<year, month, day>>
DateLE(a, b) ==
    \/ a[1] < b[1]
    \/ a[1] = b[1] /\ a[2] < b[2]
    \/ a[1] = b[1] /\ a[2] = b[2] /\ a[3] <= b[3]

\* COALESCE(updated_at, '1900-01-01'): <<>> is NULL
CoalesceDate(d) == IF d = <<>> THEN <<1900, 1, 1>> ELSE d

\* ORDER BY COALESCE(updated_at, '1900-01-01') DESC, fx_id DESC: r comes no
\* later than q in that order
OrderedFirst(r, q) ==
    IF CoalesceDate(r.updated_at) = CoalesceDate(q.updated_at)
    THEN q.fx_id <= r.fx_id
    ELSE DateLE(CoalesceDate(q.updated_at), CoalesceDate(r.updated_at))

\* the read that returns the first row in fx_id order
get_latest_row_for_currency_Oldest(fx, currency) ==
    LET rows == {r \in fx : r.currency = currency}
    IN  IF rows = {} THEN <<>>
        ELSE <<CHOOSE r \in rows : \A q \in rows : r.fx_id <= q.fx_id>>

\* _get_latest_row_for_currency(currency): <<row>> or <<>>; the latest row is
\* the first one of the currency by updated_at, then fx_id, both descending
get_latest_row_for_currency(fx, currency) ==
    LET rows == {r \in fx : r.currency = currency}
    IN  IF rows = {} THEN <<>>
        ELSE <<CHOOSE r \in rows : \A q \in rows : OrderedFirst(r, q)>>

\* get_entity_fy_forex_rate(entity_id, currency, financial_year: int)
get_entity_fy_forex_rate(efr, entity_id, currency, financial_year) ==
    LET rows == {r \in efr :
                    /\ r.entity_id = entity_id
                    /\ r.currency = Str(UpperSeq(Chars[currency]))
                    /\ r.financial_year \in {format_financial_year(financial_year),
                                             <<financial_year>>}}
    IN  IF rows = {} THEN <<>> ELSE <<CHOOSE r \in rows : TRUE>>

\* curr = (row.get("localCurrencyCode") or "").strip().upper()
RowCurrency(row) == Str(UpperSeq(Strip(Chars[OrEmpty(row.localCurrencyCode)])))

\* entity_id of a row dictionary: its entity_id key, else resolved from entityCode
RowEntityId(row) ==
    IF ~IsNone(row.entity_id) /\ Val(row.entity_id) # 0 THEN row.entity_id
    ELSE IF row.entityCode \notin {NULLT, ""} THEN EntityIdOfCode(row.entityCode)
    ELSE None

\* financial_year of a row dictionary: parsed from financial_year, else Year
RowFinancialYear(row) ==
    LET parsed == IF row.financial_year # <<>>
                  THEN Some(parse_financial_year(row.financial_year)) ELSE None
    IN  IF ~IsNone(parsed) /\ Val(parsed) # 0 THEN parsed ELSE row.Year

\* the row dictionary of the SELECT in upload_file and update_by_particular:
\* sl_no, Particular, mainCategory, category1, localCurrencyCode, Avg_Fx_Rt,
\* transactionAmount. The other keys are absent, so row.get() gives None.
RowDictNarrow(r) ==
    [sl_no |-> r.sl_no, Particular |-> r.Particular, mainCategory |-> r.mainCategory,
     category1 |-> r.category1, localCurrencyCode |-> r.localCurrencyCode,
     Avg_Fx_Rt |-> r.Avg_Fx_Rt, transactionAmount |-> r.transactionAmount,
     entity_id |-> None, entityCode |-> NULLT, financial_year |-> <<>>, Year |-> None]

\* the row dictionary of the SELECT in get_structured_data: all columns, and
\* entity_id from the LEFT JOIN with entity_master
RowDictWide(r) ==
    [sl_no |-> r.sl_no, Particular |-> r.Particular, mainCategory |-> r.mainCategory,
     category1 |-> r.category1, localCurrencyCode |-> r.localCurrencyCode,
     Avg_Fx_Rt |-> r.Avg_Fx_Rt, transactionAmount |-> r.transactionAmount,
     entity_id |-> EntityIdOfCode(r.entityCode), entityCode |-> r.entityCode,
     financial_year |-> r.financial_year, Year |-> Some(r.Year)]

\* the lookup that tries the previous year before the next
ResolveEntityRate_PrevFirst(efr, entity_id, curr, fy) ==
    LET exact == get_entity_fy_forex_rate(efr, entity_id, curr, fy)
        next  == get_entity_fy_forex_rate(efr, entity_id, curr, fy + 1)
        prev  == get_entity_fy_forex_rate(efr, entity_id, curr, fy - 1)
    IN  IF exact # <<>> THEN <<[key_fy |-> fy, rates |-> exact[1]]>>
        ELSE IF prev # <<>> THEN <<[key_fy |-> fy - 1, rates |-> prev[1]]>>
        ELSE IF next # <<>> THEN <<[key_fy |-> fy + 1, rates |-> next[1]]>>
        ELSE <<>>

\* lines 62-103: the entity_forex_rates record for (entity, currency, fy),
\* else the one of fy + 1, else the one of fy - 1: <<[key_fy, rates]>> or <<>>
ResolveEntityRate(efr, entity_id, curr, fy) ==
    LET exact == get_entity_fy_forex_rate(efr, entity_id, curr, fy)
        next  == get_entity_fy_forex_rate(efr, entity_id, curr, fy + 1)
        prev  == get_entity_fy_forex_rate(efr, entity_id, curr, fy - 1)
    IN  IF exact # <<>> THEN <<[key_fy |-> fy, rates |-> exact[1]]>>
        ELSE IF next # <<>> THEN <<[key_fy |-> fy + 1, rates |-> next[1]]>>
        ELSE IF prev # <<>> THEN <<[key_fy |-> fy - 1, rates |-> prev[1]]>>
        ELSE <<>>

\* lines 112-136: the legacy rate of a currency: the currency code, the code
\* with IN appended (three-letter codes), then USDIN, then USD
LegacyVariants(curr) ==
    <<curr>> \o (IF Len(Chars[curr]) = 3 THEN <<Str(Chars[curr] \o <<"I","N">>)>> ELSE <<>>)
             \o <<"USDIN", "USD">>

RECURSIVE FirstLegacyRow(_, _)
FirstLegacyRow(fx, variants) ==
    IF variants = <<>> THEN <<>>
    ELSE IF get_latest_row_for_currency(fx, Head(variants)) # <<>>
         THEN get_latest_row_for_currency(fx, Head(variants))
         ELSE FirstLegacyRow(fx, Tail(variants))

\* _build_forex_cache(rows): [fy: entries keyed by (entity_id, currency, FY),
\*                            legacy: entries keyed by currency]
build_forex_cache(db, rows) ==
    Let({RowCurrency(row) : row \in {x \in rows : RowCurrency(x) # ""}}, LAMBDA currencies :
    Let({<<Val(RowEntityId(row)), RowCurrency(row), Val(RowFinancialYear(row))>> :
            row \in {x \in rows :
                        /\ ~IsNone(RowEntityId(x))
                        /\ ~IsNone(RowFinancialYear(x)) /\ Val(RowFinancialYear(x)) # 0
                        /\ RowCurrency(x) # ""}}, LAMBDA entity_currency_fy :
    Let({t \in entity_currency_fy :
            ResolveEntityRate(db.efr, t[1], t[2], t[3]) # <<>>}, LAMBDA found :
    Let({t[2] : t \in found}, LAMBDA found_entity_rates :
    Let(currencies \ found_entity_rates, LAMBDA currencies_needing_fallback :
        [fy |->
            {Let(ResolveEntityRate(db.efr, t[1], t[2], t[3])[1], LAMBDA res :
                 [entity_id |-> t[1], currency |-> t[2], financial_year |-> res.key_fy,
                  fx |-> [source |-> "entity_forex_rates",
                          opening_rate |-> res.rates.opening_rate,
                          closing_rate |-> res.rates.closing_rate,
                          initial_rate |-> res.rates.opening_rate,
                          latest_rate  |-> res.rates.closing_rate]]) : t \in found},
         legacy |->
            {Let(FirstLegacyRow(db.fx, LegacyVariants(c))[1], LAMBDA fx_row :
                 [currency |-> c,
                  fx |-> [source |-> "forex_master",
                          initial_rate |-> fx_row.initial_rate,
                          latest_rate  |-> fx_row.latest_rate,
                          opening_rate |-> fx_row.initial_rate,
                          closing_rate |-> fx_row.latest_rate]]) :
                c \in {x \in currencies_needing_fallback :
                          FirstLegacyRow(db.fx, LegacyVariants(x)) # <<>>}}])))))

\* forex_cache.get(f"{entity_id}_{curr}_{fy}"): <<fx>> or <<>>
CacheGetFy(cache, entity_id, curr, fy) ==
    LET hit == {e \in cache.fy : e.entity_id = entity_id /\ e.currency = curr
                                 /\ e.financial_year = fy}
    IN  IF hit = {} THEN <<>> ELSE <<(CHOOSE e \in hit : TRUE).fx>>

\* forex_cache.get(f"legacy_{curr}"): <<fx>> or <<>>
CacheGetLegacy(cache, curr) ==
    LET hit == {e \in cache.legacy : e.currency = curr}
    IN  IF hit = {} THEN <<>> ELSE <<(CHOOSE e \in hit : TRUE).fx>>

\* lines 323-344: the cache entry a row uses: <<fx>> or <<>>
RowCacheEntry(cache, row) ==
    Let(RowCurrency(row), LAMBDA curr :
    Let(RowEntityId(row), LAMBDA e :
    Let(RowFinancialYear(row), LAMBDA fy :
    Let(~IsNone(e) /\ ~IsNone(fy) /\ Val(fy) # 0, LAMBDA keyed :
    Let(IF keyed THEN CacheGetFy(cache, Val(e), curr, Val(fy)) ELSE <<>>, LAMBDA a :
    Let(IF keyed /\ a = <<>> THEN CacheGetFy(cache, Val(e), curr, Val(fy) + 1) ELSE a, LAMBDA b :
    Let(IF keyed /\ b = <<>> THEN CacheGetFy(cache, Val(e), curr, Val(fy) - 1) ELSE b, LAMBDA c :
        IF c # <<>> THEN c ELSE CacheGetLegacy(cache, curr))))))))

\* the rate a row gets from the cache: None when it is skipped
RowRate(cache, row) ==
    Let(RowCacheEntry(cache, row), LAMBDA entry :
        IF IsBlank(row.mainCategory) \/ entry = <<>> THEN None
        ELSE Let(entry[1], LAMBDA fx :
                 EffectiveRate(is_pl(row.mainCategory, row.category1), fx)))

\* transaction_amount_usd = float(amt) * rate
AmountUSD(amt, rate) == IF IsNone(amt) THEN None ELSE Some(Val(amt) * Val(rate))

\* _calculate_and_save_forex_rates(rows, forex_cache, save_to_db=True): updates_to_save
updates_to_save(cache, rows) ==
    {Let(RowRate(cache, row), LAMBDA rate :
         [sl_no |-> row.sl_no, avg_fx_rt |-> rate,
          transaction_amount_usd |-> AmountUSD(row.transactionAmount, rate)]) :
        row \in {x \in rows : ~IsNone(RowRate(cache, x))}}

\* the USD amount left as it was when the rate is saved
SaveRate_KeepUSD(r, u) == [r EXCEPT !.Avg_Fx_Rt = u.avg_fx_rt]

\* UPDATE final_structured SET Avg_Fx_Rt = %s, transactionAmountUSD = %s WHERE sl_no = %s
SaveRate(r, u) ==
    [r EXCEPT !.Avg_Fx_Rt = u.avg_fx_rt, !.transactionAmountUSD = u.transaction_amount_usd]

\* lines 421-433: the updates applied one by one, each to the row of its sl_no
ApplyUpdates(fs, updates) ==
    {IF \E u \in updates : u.sl_no = r.sl_no
     THEN SaveRate(r, CHOOSE u \in updates : u.sl_no = r.sl_no)
     ELSE r : r \in fs}

----------------------------------------------------------------------------
(* Category mapping: sync, update-by-particular *)

\* code_master rows whose RawParticulars match a particular, LOWER(TRIM()) on both
MatchingCodes(cm, particular) ==
    {m \in cm : Norm(m.RawParticulars) = Norm(particular)}

\* fetch_one of the rows matching a particular (the greatest code_id, as
\* ORDER BY code_id DESC LIMIT 1; RawParticulars is unique, so there is one)
CodeFor(cm, particular) ==
    CHOOSE m \in MatchingCodes(cm, particular) :
        \A q \in MatchingCodes(cm, particular) : q.code_id <= m.code_id

\* the sync without its WHERE: every matching row is overwritten
NeedsSync_Always(r) == TRUE

\* the WHERE of the sync: one of the six category columns is NULL or blank
NeedsSync(r) ==
    \/ IsBlank(r.mainCategory) \/ IsBlank(r.category1) \/ IsBlank(r.category2)
    \/ IsBlank(r.category3)    \/ IsBlank(r.category4) \/ IsBlank(r.category5)

\* the SET of the sync with only the first blank column written
SyncRow_FirstBlankOnly(r, m) ==
    IF IsBlank(r.mainCategory) THEN [r EXCEPT !.mainCategory = m.mainCategory]
    ELSE IF IsBlank(r.category1) THEN [r EXCEPT !.category1 = m.category1]
    ELSE IF IsBlank(r.category2) THEN [r EXCEPT !.category2 = m.category2]
    ELSE IF IsBlank(r.category3) THEN [r EXCEPT !.category3 = m.category3]
    ELSE IF IsBlank(r.category4) THEN [r EXCEPT !.category4 = m.category4]
    ELSE [r EXCEPT !.category5 = m.category5]

\* the SET of the sync: all six columns from the code_master row
SyncRow(r, m) == WithCategories(r, Categories(m))

\* _sync_final_structured_with_code_master(): the UPDATE ... JOIN
sync_final_structured_with_code_master(fs, cm) ==
    {IF NeedsSync(r) /\ MatchingCodes(cm, r.Particular) # {}
     THEN SyncRow(r, CodeFor(cm, r.Particular))
     ELSE r : r \in fs}

\* x or None
OrNone(t) == IF t = "" THEN NULLT ELSE t

\* update_by_particular: the categories of the code_master row on every row of
\* the particular, then the FX pass over those rows
update_by_particular(db, payload_particular) ==
    Let(Str(Strip(Chars[payload_particular])), LAMBDA particular :
        IF particular = "" \/ MatchingCodes(db.cm, particular) = {} THEN db
        ELSE
    Let(Categories(CodeFor(db.cm, particular)), LAMBDA code :
    Let([k \in DOMAIN code |-> OrNone(code[k])], LAMBDA cats :
    Let({IF Norm(r.Particular) = Norm(particular)
         THEN WithCategories(r, cats) ELSE r : r \in db.fs}, LAMBDA fs1 :
    Let({RowDictNarrow(r) :
            r \in {x \in fs1 : Norm(x.Particular) = Norm(particular)}}, LAMBDA updated_rows :
    Let({row \in updated_rows : Strip(Chars[OrEmpty(row.mainCategory)]) # <<>>},
        LAMBDA rows_with_main_category :
    Let([db EXCEPT !.fs = fs1], LAMBDA d1 :
    Let(build_forex_cache(d1, rows_with_main_category), LAMBDA forex_cache :
        [d1 EXCEPT !.fs = ApplyUpdates(fs1,
              updates_to_save(forex_cache, rows_with_main_category))]))))))))

----------------------------------------------------------------------------
(* Legacy rates: create_forex, upsert_forex and the recalculation they trigger *)

\* LOWER(TRIM(x)) is one of 'profit and loss', 'profit & loss', 'p&l'
IsPLLabel(t) == t # NULLT /\ Norm(t) \in {PROFIT_AND_LOSS, PROFIT_AMP_LOSS, P_AND_L}

\* the P&L condition of the recalculation's UPDATEs
RecalcIsPL(r) == IsPLLabel(r.category1) \/ IsPLLabel(r.mainCategory)

\* matching_currencies of a forex currency: USDIN matches USD and USDIN
matching_currencies(currency) ==
    IF EndsWith(Chars[currency], <<"I","N">>)
    THEN {Str(SubSeq(Chars[currency], 1, Len(Chars[currency]) - 2)), currency}
    ELSE {currency} \cup (IF Len(Chars[currency]) = 3
                          THEN {Str(Chars[currency] \o <<"I","N">>)} ELSE {})

\* the recalculation without the mainCategory condition
RecalcEligible_AnyCategory(r, currency) ==
    /\ ~IsNone(r.transactionAmount)
    /\ r.localCurrencyCode # NULLT
    /\ Str(UpperSeq(Strip(Chars[r.localCurrencyCode]))) \in matching_currencies(currency)

\* the WHERE shared by the recalculation's UPDATEs
RecalcEligible(r, currency) ==
    /\ ~IsBlank(r.mainCategory)
    /\ ~IsNone(r.transactionAmount)
    /\ r.localCurrencyCode # NULLT
    /\ Str(UpperSeq(Strip(Chars[r.localCurrencyCode]))) \in matching_currencies(currency)

\* SET Avg_Fx_Rt = %s, transactionAmountUSD = transactionAmount * %s
SetRate(r, rate) ==
    [r EXCEPT !.Avg_Fx_Rt = rate,
              !.transactionAmountUSD = Some(Val(r.transactionAmount) * Val(rate))]

\* recalculate_avg_fx_rate_internal(currency), and the route recalculate_avg_fx_rate
recalculate_avg_fx_rate_internal(db, currency) ==
    LET forex_row == get_latest_row_for_currency(db.fx, currency)
        initial_rate == forex_row[1].initial_rate
        latest_rate  == forex_row[1].latest_rate
        avg_rate_pl  == IF ~IsNone(initial_rate) /\ ~IsNone(latest_rate)
                        THEN Some((Val(initial_rate) + Val(latest_rate)) \div 2)
                        ELSE None
        fs1 == IF ~IsNone(latest_rate)
               THEN {IF RecalcEligible(r, currency) /\ ~RecalcIsPL(r)
                     THEN SetRate(r, latest_rate) ELSE r : r \in db.fs}
               ELSE db.fs
        fs2 == IF ~IsNone(avg_rate_pl)
               THEN {IF RecalcEligible(r, currency) /\ RecalcIsPL(r)
                     THEN SetRate(r, avg_rate_pl) ELSE r : r \in fs1}
               ELSE fs1
    IN  IF forex_row = <<>> THEN db
        ELSE IF IsNone(initial_rate) /\ IsNone(latest_rate) THEN db
        ELSE [db EXCEPT !.fs = fs2]

\* INSERT INTO forex_master (currency, initial_rate, latest_rate, month, updated_at)
InsertForex(db, currency, initial_rate, latest_rate, month) ==
    [db EXCEPT !.fx = @ \cup {[fx_id |-> db.ids.fx_id, currency |-> currency,
                               initial_rate |-> initial_rate, latest_rate |-> latest_rate,
                               month |-> month, updated_at |-> today]},
               !.ids.fx_id = @ + 1]

\* create_forex: one new row, then the recalculation for the currency
create_forex(db, currency, initial_rate, latest_rate, month) ==
    IF currency = "" THEN db
    ELSE IF IsNone(initial_rate) /\ IsNone(latest_rate) THEN db
    ELSE IF ~IsNone(latest_rate) /\ IsBlank(month) THEN db
    ELSE recalculate_avg_fx_rate_internal(
             InsertForex(db, currency, initial_rate, latest_rate, month), currency)

\* upsert_forex: always a new row; the rate that is not given is copied from the
\* latest row of the currency; then the recalculation
upsert_forex(db, currency, initial_rate, latest_rate, month) ==
    LET current_latest == get_latest_row_for_currency(db.fx, currency)
        copy_latest_rate == IF current_latest # <<>> THEN current_latest[1].latest_rate ELSE None
        copy_month == IF current_latest # <<>> THEN current_latest[1].month ELSE NULLT
        final_initial_rate ==
            IF ~IsNone(initial_rate) THEN initial_rate
            ELSE IF current_latest # <<>> THEN current_latest[1].initial_rate ELSE None
        d1 == IF ~IsNone(initial_rate) /\ IsNone(latest_rate)
              THEN InsertForex(db, currency, initial_rate, copy_latest_rate, copy_month)
              ELSE InsertForex(db, currency, final_initial_rate, latest_rate, month)
    IN  IF currency = "" THEN db
        ELSE IF ~IsNone(latest_rate) /\ IsBlank(month) THEN db
        ELSE IF IsNone(initial_rate) /\ IsNone(latest_rate) THEN db
        ELSE recalculate_avg_fx_rate_internal(d1, currency)

----------------------------------------------------------------------------
(* Entity rates: set_entity_fy_forex *)

\* set_entity_fy_forex(entity_id, financial_year): the record of the entity,
\* currency and FY is updated, or inserted; final_structured is not touched
set_entity_fy_forex(db, entity_id, financial_year, currency, opening_rate, closing_rate) ==
    LET existing == {r \in db.efr : r.entity_id = entity_id /\ r.currency = currency
                                    /\ r.financial_year[1] = financial_year}
        opening_rate_dec ==
            IF IsNone(opening_rate) /\ existing # {}
            THEN (CHOOSE r \in existing : TRUE).opening_rate ELSE opening_rate
        closing_rate_dec ==
            IF IsNone(closing_rate) /\ existing # {}
            THEN (CHOOSE r \in existing : TRUE).closing_rate ELSE closing_rate
        existing_record ==
            {r \in db.efr : r.entity_id = entity_id /\ r.currency = currency
                            /\ r.financial_year \in {format_financial_year(financial_year),
                                                     <<financial_year>>}}
        record == [entity_id |-> entity_id, currency |-> currency,
                   financial_year |-> format_financial_year(financial_year),
                   opening_rate |-> opening_rate_dec, closing_rate |-> closing_rate_dec]
    IN  IF currency = "" THEN db
        ELSE IF IsNone(opening_rate) /\ IsNone(closing_rate) THEN db
        ELSE IF IsNone(opening_rate_dec) \/ IsNone(closing_rate_dec) THEN db
        ELSE IF existing_record # {}
             THEN [db EXCEPT !.efr = (@ \ {CHOOSE r \in existing_record : TRUE}) \cup {record}]
             ELSE [db EXCEPT !.efr = @ \cup {record}]

----------------------------------------------------------------------------
(* Code master edits *)

\* the unique key compared byte by byte
SameKey_Exact(a, b) == a = b

\* two RawParticulars values collide on the table's unique key (the key that
\* ON DUPLICATE KEY UPDATE relies on; the collation ignores case)
SameKey(a, b) == SqlEq(a, b)

\* payload categories as stored: stripped, '' as NULL for category1..category5
StoredCategories(c) ==
    [mainCategory |-> Str(Strip(Chars[OrEmpty(c.mainCategory)])),
     category1 |-> OrNone(Str(Strip(Chars[OrEmpty(c.category1)]))),
     category2 |-> OrNone(Str(Strip(Chars[OrEmpty(c.category2)]))),
     category3 |-> OrNone(Str(Strip(Chars[OrEmpty(c.category3)]))),
     category4 |-> OrNone(Str(Strip(Chars[OrEmpty(c.category4)]))),
     category5 |-> OrNone(Str(Strip(Chars[OrEmpty(c.category5)])))]

\* create_code: INSERT ... ON DUPLICATE KEY UPDATE
create_code(db, payload_particular, payload_categories) ==
    LET RawParticulars == Str(Strip(Chars[OrEmpty(payload_particular)]))
        c == StoredCategories(payload_categories)
        dup == {m \in db.cm : SameKey(m.RawParticulars, RawParticulars)}
    IN  IF RawParticulars = "" \/ c.mainCategory = "" THEN db
        ELSE IF dup # {}
             THEN [db EXCEPT !.cm = {IF m \in dup THEN WithCategories(m, c) ELSE m : m \in @}]
             ELSE [db EXCEPT !.cm = @ \cup {[code_id |-> db.ids.code_id,
                                              RawParticulars |-> RawParticulars,
                                              mainCategory |-> c.mainCategory,
                                              category1 |-> c.category1,
                                              category2 |-> c.category2,
                                              category3 |-> c.category3,
                                              category4 |-> c.category4,
                                              category5 |-> c.category5]},
                             !.ids.code_id = @ + 1]

\* update_code(code_id): UPDATE code_master SET ... WHERE code_id = %s; a
\* RawParticulars that another row holds is refused by the unique key
update_code(db, code_id, payload_particular, payload_categories) ==
    LET RawParticulars == Str(Strip(Chars[OrEmpty(payload_particular)]))
        c == StoredCategories(payload_categories)
        clash == \E m \in db.cm : m.code_id # code_id /\ SameKey(m.RawParticulars, RawParticulars)
    IN  IF ~\E m \in db.cm : m.code_id = code_id THEN db
        ELSE IF RawParticulars = "" \/ c.mainCategory = "" THEN db
        ELSE IF clash THEN db
        ELSE [db EXCEPT !.cm = {IF m.code_id = code_id
                                THEN WithCategories([m EXCEPT !.RawParticulars = RawParticulars], c)
                                ELSE m : m \in @}]

\* delete_code(code_id): DELETE FROM code_master WHERE code_id = %s
delete_code(db, code_id) == [db EXCEPT !.cm = {m \in @ : m.code_id # code_id}]

\* delete_all_codes: DELETE FROM code_master
delete_all_codes(db) == [db EXCEPT !.cm = {}]

----------------------------------------------------------------------------
(* Purge and sign migration *)

\* delete_all_structured_data: DELETE FROM final_structured, DELETE FROM rawData
delete_all_structured_data(db) == [db EXCEPT !.fs = {}, !.raw = {}]

\* fix_existing_signs.parse_amount_and_type on a decimal read from rawData: the
\* text of a decimal holds neither Dr nor Cr, so there is no type
fix_amount_type(raw_value) == NULLT

\* fix_existing_data(): the LEFT JOIN is on rawData.PeriodID, which no row written
\* by insert_raw_data carries, so each record comes with NULL raw columns
fix_existing_data(db) ==
    LET records == {[row |-> r, OpeningBalance |-> None, Transactions |-> None] :
                       r \in {x \in db.fs : ~IsNone(x.transactionAmount)}}
        raw_value(rec) == IF LowerSeq(Chars[OrEmpty(rec.row.Month)]) = LowerSeq(Chars["Opening"])
                          THEN rec.OpeningBalance ELSE rec.Transactions
        typed == {rec \in records : ~IsNone(raw_value(rec)) /\ Val(raw_value(rec)) # 0
                                    /\ fix_amount_type(raw_value(rec)) # NULLT}
        correct_amount(rec) ==
            IF fix_amount_type(raw_value(rec)) = "Dr"
            THEN Abs(Val(rec.row.transactionAmount))
            ELSE -Abs(Val(rec.row.transactionAmount))
        wrong == {rec \in typed : Val(rec.row.transactionAmount) # correct_amount(rec)}
        fs1 == {IF \E rec \in wrong : rec.row.sl_no = r.sl_no
                THEN [r EXCEPT !.transactionAmount =
                         Some(correct_amount(CHOOSE rec \in wrong : rec.row.sl_no = r.sl_no))]
                ELSE r : r \in db.fs}
        fs2 == {IF IsNone(r.transactionAmount) THEN r
                ELSE [r EXCEPT !.transactionAmountUSD =
                         IF ~IsNone(r.Avg_Fx_Rt)
                         THEN Some(Val(r.transactionAmount) * Val(r.Avg_Fx_Rt)) ELSE None] :
                r \in fs1}
    IN  IF wrong = {} THEN db ELSE [db EXCEPT !.fs = fs2]

----------------------------------------------------------------------------
(* Upload: validation, delete of the scope, de-duplication *)

\* financial_year_master: one active period, April 2024 to March 2025
financial_year_master ==
    { [id |-> 1, financial_year |-> <<2024, 25>>, is_active |-> 1,
       start_date |-> <<2024, 4, 1>>, end_date |-> <<2025, 3, 31>>] }

\* WHERE is_active = 1 AND %s >= start_date AND %s <= end_date, on the table fy
ActivePeriodsHolding(fy, check_date) ==
    {p \in fy :
        p.is_active = 1 /\ DateLE(p.start_date, check_date) /\ DateLE(check_date, p.end_date)}

\* validate_date_against_fy_master(check_date): the active periods holding the date
validate_date_against_fy_master(check_date) ==
    ActivePeriodsHolding(financial_year_master, check_date)

\* month_map.get(month_name_lower, 1)
MonthNames ==
    << <<"j","a","n","u","a","r","y">>, <<"f","e","b","r","u","a","r","y">>,
       <<"m","a","r","c","h">>, <<"a","p","r","i","l">>, <<"m","a","y">>,
       <<"j","u","n","e">>, <<"j","u","l","y">>, <<"a","u","g","u","s","t">>,
       <<"s","e","p","t","e","m","b","e","r">>, <<"o","c","t","o","b","e","r">>,
       <<"n","o","v","e","m","b","e","r">>, <<"d","e","c","e","m","b","e","r">> >>

MonthNum(month_name) ==
    LET name == LowerSeq(Strip(Chars[month_name]))
    IN  IF \E i \in 1..12 : MonthNames[i] = name
        THEN CHOOSE i \in 1..12 : MonthNames[i] = name
        ELSE 1

\* upload_date = datetime(month_details['year'], month_num, 1).date()
upload_date(month_name, year) == <<year, MonthNum(month_name), 1>>

\* lines 978-1090 of upload_file with the financial years fy: the request is
\* accepted (get_current_financial_year is the same query for today's date)
UploadAcceptedIn(fy, ent_id, month_name, year) ==
    LET valid   == ActivePeriodsHolding(fy, upload_date(month_name, year))
        current == ActivePeriodsHolding(fy, today)
    IN  /\ ent_id # 0 /\ year # 0
        /\ month_name # ""
        /\ get_entity_details(ent_id) # <<>>
        /\ valid # {}
        /\ current # {} => \E p \in valid, c \in current : p.financial_year = c.financial_year

\* the validation without the two financial-year checks
UploadAccepted_AnyPeriod(ent_id, month_name, year) ==
    /\ ent_id # 0 /\ year # 0
    /\ month_name # ""
    /\ get_entity_details(ent_id) # <<>>

\* lines 978-1090 of upload_file: the request is accepted
UploadAccepted(ent_id, month_name, year) ==
    UploadAcceptedIn(financial_year_master, ent_id, month_name, year)

\* WHERE EntityID = %s AND LOWER(TRIM(Month)) = LOWER(TRIM(%s)) AND Year = %s
InRawScope(x, entity_id, month_name, year) ==
    x.EntityID = entity_id /\ Norm(x.Month) = Norm(month_name) /\ x.Year = year

\* the scope without the entity code
InStructuredScope_AnyEntity(x, entity_code, month_name, year) ==
    /\ Norm(x.selectedMonth) = Norm(month_name)
    /\ x.Year = year

\* WHERE LOWER(TRIM(entityCode)) = .. AND LOWER(TRIM(selectedMonth)) = .. AND Year = %s
InStructuredScope(x, entity_code, month_name, year) ==
    /\ Norm(x.entityCode) = Norm(entity_code)
    /\ Norm(x.selectedMonth) = Norm(month_name)
    /\ x.Year = year

\* the de-duplication that keeps every row
IsDuplicateOf_Never(x, y) == FALSE

\* the self join without the month label
IsDuplicateOf_AnyMonth(x, y) ==
    /\ Norm(x.Particular) = Norm(y.Particular)
    /\ Norm(x.entityCode) = Norm(y.entityCode)
    /\ Norm(x.selectedMonth) = Norm(y.selectedMonth)
    /\ x.Year = y.Year
    /\ ~IsNone(x.transactionAmount) /\ ~IsNone(y.transactionAmount)
    /\ Abs(Val(x.transactionAmount) - Val(y.transactionAmount)) < 1
    /\ x.sl_no > y.sl_no

\* the self join that deletes the older row
IsDuplicateOf_KeepNewest(x, y) ==
    /\ Norm(x.Particular) = Norm(y.Particular)
    /\ Norm(x.entityCode) = Norm(y.entityCode)
    /\ Norm(x.selectedMonth) = Norm(y.selectedMonth)
    /\ x.Year = y.Year
    /\ Norm(x.Month) = Norm(y.Month)
    /\ ~IsNone(x.transactionAmount) /\ ~IsNone(y.transactionAmount)
    /\ Abs(Val(x.transactionAmount) - Val(y.transactionAmount)) < 1
    /\ x.sl_no < y.sl_no

\* the ON of the de-duplication's self join: x repeats y, and y is older
IsDuplicateOf(x, y) ==
    /\ Norm(x.Particular) = Norm(y.Particular)
    /\ Norm(x.entityCode) = Norm(y.entityCode)
    /\ Norm(x.selectedMonth) = Norm(y.selectedMonth)
    /\ x.Year = y.Year
    /\ Norm(x.Month) = Norm(y.Month)
    /\ ~IsNone(x.transactionAmount) /\ ~IsNone(y.transactionAmount)
    /\ Abs(Val(x.transactionAmount) - Val(y.transactionAmount)) < 1
    /\ x.sl_no > y.sl_no

\* deduplicate_final_structured_for_entity_month_year
deduplicate_final_structured(fs, entity_code, month_name, year) ==
    {x \in fs : ~(/\ InStructuredScope(x, entity_code, month_name, year)
                  /\ \E y \in fs : IsDuplicateOf(x, y))}

----------------------------------------------------------------------------
(* Upload: the rows of one spreadsheet line *)

\* the locals of upload_file for the line at r.idx
Line(r) == r.sheet[r.idx]
entity_details(r) == get_entity_details(r.ent_id)[1]

\* particular = str(particular).strip()
LineParticular(r) == Str(Strip(Chars[Line(r).Particular]))

\* insert_raw_data: the new rawData row
RawRow(db, r) ==
    [RecordID |-> db.ids.RecordID, EntityID |-> r.ent_id, Month |-> r.month_name,
     Year |-> r.year, financial_year |-> format_financial_year(r.year),
     Particular |-> LineParticular(r),
     OpeningBalance |-> IF r.new_company = 1 THEN parse_plain_number(Line(r).Opening) ELSE None,
     Transactions |-> parse_plain_number(Line(r).Transaction),
     ClosingBalance |-> parse_plain_number(Line(r).Closing),
     newCompany |-> r.new_company]

\* raw_check_query: a rawData row of the scope with the particular
RawExists(raw, r) ==
    \E x \in raw : /\ InRawScope(x, r.ent_id, r.month_name, r.year)
                   /\ Norm(x.Particular) = Norm(LineParticular(r))

\* get_coa_mapping(particular): the categories, all NULL without a mapping
get_coa_mapping(cm, particular) ==
    IF MatchingCodes(cm, particular) = {} THEN NoCategories
    ELSE Categories(CodeFor(cm, particular))

\* opening_data / transaction_data: base_data with amt_tb_lc and month
StructuredData(r, month, cell) ==
    LET parsed == parse_amount_and_type(cell)
    IN  [particular |-> LineParticular(r), ent_code |-> entity_details(r).ent_code,
         local_currency_code |-> entity_details(r).lcl_curr, year |-> r.year,
         selectedMonth |-> r.month_name, month |-> month, coa |-> r.coa,
         amt_tb_lc |-> calculate_amt_tb_lc(parsed[1], parsed[2])]

\* the Opening row without the newCompany condition
OpeningDue_IgnoreFlag(r) == ~IsNone(parse_amount_and_type(Line(r).Opening)[1])

\* the Opening row is due: newCompany and a parsed Opening cell
OpeningDue(r) ==
    r.new_company = 1 /\ ~IsNone(parse_amount_and_type(Line(r).Opening)[1])

\* the Transaction row is due: a parsed Transaction cell
TransactionDue(r) == ~IsNone(parse_amount_and_type(Line(r).Transaction)[1])

opening_data(r) == StructuredData(r, "Opening", Line(r).Opening)
transaction_data(r) == StructuredData(r, r.month_name, Line(r).Transaction)

\* record_key of insert_structured_data
record_key(data) ==
    <<Norm(data.particular), Norm(data.ent_code), Norm(data.selectedMonth),
      data.year, Norm(data.month), data.amt_tb_lc>>

\* the duplicate check without the entity code
ExistsInDb_AnyEntity(fs, data) ==
    \E x \in fs :
        /\ Norm(x.Particular) = Norm(data.particular)
        /\ Norm(x.selectedMonth) = Norm(data.selectedMonth)
        /\ (x.Year = data.year \/ x.financial_year = format_financial_year(data.year))
        /\ Norm(x.Month) = Norm(data.month)
        /\ ~IsNone(x.transactionAmount)
        /\ Abs(Val(x.transactionAmount) - Val(data.amt_tb_lc)) < 1

\* check_query of insert_structured_data: COUNT(*) > 0
ExistsInDb(fs, data) ==
    \E x \in fs :
        /\ Norm(x.Particular) = Norm(data.particular)
        /\ Norm(x.entityCode) = Norm(data.ent_code)
        /\ Norm(x.selectedMonth) = Norm(data.selectedMonth)
        /\ (x.Year = data.year \/ x.financial_year = format_financial_year(data.year))
        /\ Norm(x.Month) = Norm(data.month)
        /\ ~IsNone(x.transactionAmount)
        /\ Abs(Val(x.transactionAmount) - Val(data.amt_tb_lc)) < 1

\* INSERT IGNORE INTO final_structured: the new row (Avg_Fx_Rt and
\* transactionAmountUSD are not given, so NULL)
StructuredRow(db, data) ==
    [sl_no |-> db.ids.sl_no, Particular |-> data.particular, entityCode |-> data.ent_code,
     localCurrencyCode |-> data.local_currency_code, transactionAmount |-> data.amt_tb_lc,
     Month |-> data.month, selectedMonth |-> data.selectedMonth,
     mainCategory |-> data.coa.mainCategory, category1 |-> data.coa.category1,
     category2 |-> data.coa.category2, category3 |-> data.coa.category3,
     category4 |-> data.coa.category4, category5 |-> data.coa.category5,
     Year |-> data.year, financial_year |-> format_financial_year(data.year),
     Avg_Fx_Rt |-> None, transactionAmountUSD |-> None]

----------------------------------------------------------------------------
(* Upload: upload_file statement by statement *)

\* the locals of a request that has passed (or failed) the validation
NewRequest(ent_id, month_name, year, new_company, sheet) ==
    [pc |-> IF UploadAccepted(ent_id, month_name, year) THEN "raw_count" ELSE "done",
     ent_id |-> ent_id, month_name |-> month_name, year |-> year,
     new_company |-> new_company, sheet |-> sheet, idx |-> 1,
     inserted_keys_set |-> {}, records_inserted |-> 0,
     coa |-> NoCategories, updates |-> {}]

\* for index, row in df.iterrows(): the next line with a Particular, else the
\* de-duplication
RECURSIVE SeekLine(_)
SeekLine(r) ==
    IF r.idx > Len(r.sheet) THEN [r EXCEPT !.pc = "dedup"]
    ELSE IF Line(r).Particular = "" THEN Let([r EXCEPT !.idx = @ + 1], SeekLine)
    ELSE [r EXCEPT !.pc = "raw_check"]

NextLine(r) == Let([r EXCEPT !.idx = @ + 1], SeekLine)

\* the in-memory check of insert_structured_data for the Transaction row
EnterTransaction(r) ==
    IF ~TransactionDue(r) THEN NextLine(r)
    ELSE Let(Let(transaction_data(r), record_key), LAMBDA key :
             IF key \in r.inserted_keys_set THEN NextLine(r)
             ELSE [r EXCEPT !.inserted_keys_set = @ \cup {key}, !.pc = "t_check1"])

\* the in-memory check of insert_structured_data for the Opening row
EnterOpening(r) ==
    IF ~OpeningDue(r) THEN EnterTransaction(r)
    ELSE Let(Let(opening_data(r), record_key), LAMBDA key :
             IF key \in r.inserted_keys_set THEN EnterTransaction(r)
             ELSE [r EXCEPT !.inserted_keys_set = @ \cup {key}, !.pc = "o_check1"])

\* inserted_keys_set.discard(record_key)
Discard(r, data) == [r EXCEPT !.inserted_keys_set = @ \ {record_key(data)}]

\* the rows of new_rows_query, as row dictionaries
new_rows(db, r) ==
    {RowDictNarrow(x) :
        x \in {y \in db.fs : /\ SqlEq(y.entityCode, entity_details(r).ent_code)
                             /\ SqlEq(y.selectedMonth, r.month_name)
                             /\ y.Year = r.year
                             /\ ~IsBlank(y.mainCategory)
                             /\ IsNone(y.Avg_Fx_Rt)}}

\* one statement of upload_file: the database and the locals after it
upload_step(db, r) ==
    LET scope_raw == {x \in db.raw : InRawScope(x, r.ent_id, r.month_name, r.year)}
        scope_fs  == {x \in db.fs : InStructuredScope(x, entity_details(r).ent_code,
                                                      r.month_name, r.year)}
        first     == CHOOSE u \in r.updates : \A v \in r.updates : u.sl_no <= v.sl_no
    IN  CASE r.pc = "raw_count" ->
               [db |-> db, r |-> [r EXCEPT !.pc = IF scope_raw # {} THEN "raw_delete"
                                                  ELSE "fs_count"]]
          [] r.pc = "raw_delete" ->
               [db |-> [db EXCEPT !.raw = @ \ scope_raw], r |-> [r EXCEPT !.pc = "raw_verify"]]
          [] r.pc = "raw_verify" ->
               [db |-> db, r |-> [r EXCEPT !.pc = IF scope_raw = {} THEN "fs_count"
                                                  ELSE "raw_retry"]]
          [] r.pc = "raw_retry" ->
               [db |-> [db EXCEPT !.raw = @ \ scope_raw], r |-> [r EXCEPT !.pc = "raw_verify2"]]
          [] r.pc = "raw_verify2" ->
               [db |-> db, r |-> [r EXCEPT !.pc = "fs_count"]]
          [] r.pc = "fs_count" ->
               [db |-> db, r |-> IF scope_fs # {} THEN [r EXCEPT !.pc = "fs_delete"]
                                 ELSE SeekLine(r)]
          [] r.pc = "fs_delete" ->
               [db |-> [db EXCEPT !.fs = @ \ scope_fs], r |-> [r EXCEPT !.pc = "fs_verify"]]
          [] r.pc = "fs_verify" ->
               [db |-> db, r |-> SeekLine(r)]
          [] r.pc = "raw_check" ->
               [db |-> db, r |-> [r EXCEPT !.pc = IF RawExists(db.raw, r) THEN "coa"
                                                  ELSE "raw_insert"]]
          [] r.pc = "raw_insert" ->
               [db |-> [db EXCEPT !.raw = @ \cup {RawRow(db, r)}, !.ids.RecordID = @ + 1],
                r  |-> [r EXCEPT !.pc = "coa"]]
          [] r.pc = "coa" ->
               [db |-> db,
                r  |-> Let([r EXCEPT !.coa = get_coa_mapping(db.cm, LineParticular(r))],
                           EnterOpening)]
          [] r.pc \in {"o_check1", "o_check2"} ->
               [db |-> db,
                r  |-> Let(opening_data(r), LAMBDA data :
                           IF ExistsInDb(db.fs, data)
                           THEN Let(Discard(r, data), EnterTransaction)
                           ELSE [r EXCEPT !.pc = IF r.pc = "o_check1" THEN "o_check2"
                                                 ELSE "o_insert"])]
          [] r.pc = "o_insert" ->
               [db |-> [db EXCEPT !.fs = @ \cup {Let(opening_data(r), LAMBDA data :
                                                       StructuredRow(db, data))},
                                  !.ids.sl_no = @ + 1],
                r  |-> Let([r EXCEPT !.records_inserted = @ + 1], EnterTransaction)]
          [] r.pc \in {"t_check1", "t_check2"} ->
               [db |-> db,
                r  |-> Let(transaction_data(r), LAMBDA data :
                           IF ExistsInDb(db.fs, data)
                           THEN Let(Discard(r, data), NextLine)
                           ELSE [r EXCEPT !.pc = IF r.pc = "t_check1" THEN "t_check2"
                                                 ELSE "t_insert"])]
          [] r.pc = "t_insert" ->
               [db |-> [db EXCEPT !.fs = @ \cup {Let(transaction_data(r), LAMBDA data :
                                                       StructuredRow(db, data))},
                                  !.ids.sl_no = @ + 1],
                r  |-> Let([r EXCEPT !.records_inserted = @ + 1], NextLine)]
          [] r.pc = "dedup" ->
               [db |-> [db EXCEPT !.fs = deduplicate_final_structured(
                                             @, entity_details(r).ent_code, r.month_name, r.year)],
                r  |-> [r EXCEPT !.pc = IF r.records_inserted > 0 THEN "fx_query" ELSE "done"]]
          [] r.pc = "fx_query" ->
               Let(new_rows(db, r), LAMBDA rows :
               Let(build_forex_cache(db, rows), LAMBDA forex_cache :
               Let(updates_to_save(forex_cache, rows), LAMBDA ups :
                   [db |-> db, r |-> [r EXCEPT !.updates = ups,
                                               !.pc = IF ups = {} THEN "done"
                                                      ELSE "fx_update"]])))
          [] r.pc = "fx_update" ->
               [db |-> [db EXCEPT !.fs = ApplyUpdates(@, {first})],
                r  |-> [r EXCEPT !.updates = @ \ {first},
                                 !.pc = IF r.updates = {first} THEN "done" ELSE "fx_update"]]
          [] OTHER -> [db |-> db, r |-> r]

\* upload_file run from the request's position to its end with no other request
RECURSIVE RunUpload(_, _)
RunUpload(db, r) ==
    IF r.pc = "done" THEN db
    ELSE CHOOSE d \in {RunUpload(s.db, s.r) : s \in {upload_step(db, r)}} : TRUE

----------------------------------------------------------------------------
(* Bounds and inputs *)

MaxSlNo   == 3    \* uploads start while the next sl_no is at most this
MaxCodeId == 1    \* code_master rows are created while the next code_id is at most this
MaxFxId   == 2    \* forex_master rows are created while the next fx_id is at most this

\* two spreadsheets: A has an opening balance and a credit, B repeats one line
SheetA ==
    << [Particular |-> " Cash ", Opening |-> <<"1",",","0","0","0">>,
        Transaction |-> <<>>, Closing |-> <<"n","a","n">>],
       [Particular |-> "Sales", Opening |-> <<>>,
        Transaction |-> <<"-","2","5","0",".","5","0"," ","D","r">>, Closing |-> <<>>] >>

SheetB ==
    << [Particular |-> "CASH", Opening |-> <<"1",",","0","0","0">>,
        Transaction |-> <<"7","0">>, Closing |-> <<"7","0">>],
       [Particular |-> "Cash", Opening |-> <<"1",",","0","0","0">>,
        Transaction |-> <<"7","0">>, Closing |-> <<"7","0">>] >>

\* the upload requests: <<ent_id, month, year, newCompany, sheet>>; the last one
\* is outside the active financial year
UploadRequests ==
    { <<1, "April", 2024, 1, SheetA>>, <<1, "April", 2024, 0, SheetB>>,
      <<2, "April", 2024, 0, SheetB>>, <<1, "April", 2025, 0, SheetB>> }

\* category tuples of the code master payloads
CatBalanceSheet ==
    [mainCategory |-> "Assets", category1 |-> "Balance Sheet", category2 |-> "Sub",
     category3 |-> "Sub", category4 |-> "Sub", category5 |-> "Sub"]
CatProfitLoss ==
    [mainCategory |-> "Income", category1 |-> "Profit and Loss", category2 |-> "",
     category3 |-> NULLT, category4 |-> NULLT, category5 |-> NULLT]
CategoryChoices == {CatBalanceSheet, CatProfitLoss}
ParticularChoices == {" Cash "}

\* rates, in half units: legacy 80.0 and 84.0, entity 90.0 and 92.0
LegacyInitialRates == {Some(160)}
LegacyLatestRates  == {Some(168)}
EntityOpeningRates == {Some(180)}
EntityClosingRates == {Some(184)}
LegacyCurrencies == {"EUR"}
RatedEntities == {1}

Scopes == {<<u[1], u[2], u[3]>> : u \in UploadRequests}
NoSnap == [times |-> 0, sheet |-> <<>>, new_company |-> 0,
           summary |-> [raw |-> {}, fs |-> {}]]

\* the rows of a scope: rawData and final_structured contents with their counts
ScopeSummary(db, ent_id, month_name, year) ==
    LET raw == {x \in db.raw : InRawScope(x, ent_id, month_name, year)}
        fs  == {x \in db.fs : InStructuredScope(x, get_entity_details(ent_id)[1].ent_code,
                                                month_name, year)}
        RawContent(x) == <<x.Particular, x.OpeningBalance, x.Transactions, x.ClosingBalance>>
        FsContent(x)  == <<x.Particular, x.Month, x.transactionAmount>>
    IN  [raw |-> {<<c, Cardinality({x \in raw : RawContent(x) = c})>> :
                     c \in {RawContent(x) : x \in raw}},
         fs  |-> {<<c, Cardinality({x \in fs : FsContent(x) = c})>> :
                     c \in {FsContent(x) : x \in fs}}]

----------------------------------------------------------------------------
(* The requests, one at a time *)

NoProbe == [fn |-> "none", rows |-> 0]

\* the tables after the two entities were created: create_entity adds the
\* entity's currency to forex_master with NULL rates
Init ==
    /\ rawData = {}
    /\ final_structured = {}
    /\ code_master = {}
    /\ forex_master = {[fx_id |-> 1, currency |-> "EUR", initial_rate |-> None,
                        latest_rate |-> None, month |-> NULLT,
            updated_at |-> today]}
    /\ entity_forex_rates = {}
    /\ next_id = [sl_no |-> 1, RecordID |-> 1, code_id |-> 1, fx_id |-> 2]
    /\ entities = InitialEntities
    /\ financial_years = financial_year_master
    /\ req = <<>>
    /\ snap = [s \in Scopes |-> NoSnap]
    /\ probe = NoProbe

\* the tables become those of d
SetDB(d) ==
    /\ rawData' = d.raw
    /\ final_structured' = d.fs
    /\ code_master' = d.cm
    /\ forex_master' = d.fx
    /\ entity_forex_rates' = d.efr
    /\ next_id' = d.ids
    /\ UNCHANGED masters

\* POST /upload with no other upload in flight
Upload(ent_id, month_name, year, new_company, sheet) ==
    \E r0 \in {NewRequest(ent_id, month_name, year, new_company, sheet)},
       s \in {<<ent_id, month_name, year>>} :
      \E d \in {RunUpload(DB, r0)} :
        /\ req = <<>>
        /\ next_id.sl_no <= MaxSlNo
        /\ SetDB(d)
        /\ snap' = IF r0.pc = "done" THEN snap
                   ELSE [snap EXCEPT ![s] =
                            [times |-> IF @.times > 0 /\ @.sheet = sheet
                                          /\ @.new_company = new_company
                                       THEN 2 ELSE 1,
                             sheet |-> sheet, new_company |-> new_company,
                             summary |-> ScopeSummary(d, ent_id, month_name, year)]]
        /\ probe' = NoProbe
        /\ UNCHANGED req

\* GET /data: the sync runs before the read
GetStructuredData ==
    /\ final_structured' = sync_final_structured_with_code_master(final_structured, code_master)
    /\ probe' = [fn |-> "sync", rows |-> Cardinality(final_structured' \ final_structured)]
    /\ UNCHANGED <<rawData, code_master, forex_master, entity_forex_rates, next_id,
                   masters, req, snap>>

\* PUT /update-by-particular
UpdateByParticular(particular) ==
    /\ \E d \in {update_by_particular(DB, particular)} : SetDB(d)
    /\ probe' = NoProbe
    /\ UNCHANGED <<req, snap>>

\* POST /recalculate-avg-fx-rate
RecalculateAvgFxRate(currency) ==
    /\ \E d \in {recalculate_avg_fx_rate_internal(DB, currency)} : SetDB(d)
    /\ probe' = NoProbe
    /\ UNCHANGED <<req, snap>>

\* POST /forex
CreateForex(currency, initial_rate, latest_rate, month) ==
    /\ next_id.fx_id <= MaxFxId
    /\ \E d \in {create_forex(DB, currency, initial_rate, latest_rate, month)} : SetDB(d)
    /\ probe' = NoProbe
    /\ UNCHANGED <<req, snap>>

\* PUT /forex/<currency>
UpsertForex(currency, initial_rate, latest_rate, month) ==
    /\ next_id.fx_id <= MaxFxId
    /\ \E d \in {upsert_forex(DB, currency, initial_rate, latest_rate, month)} : SetDB(d)
    /\ probe' = NoProbe
    /\ UNCHANGED <<req, snap>>

\* POST /forex/entity/<entity_id>/financial-year/<financial_year>
SetEntityFyForex(entity_id, financial_year, currency, opening_rate, closing_rate) ==
    /\ \E d \in {set_entity_fy_forex(DB, entity_id, financial_year, currency,
                                    opening_rate, closing_rate)} : SetDB(d)
    /\ probe' = NoProbe
    /\ UNCHANGED <<req, snap>>

\* POST /code-master
CreateCode(particular, categories) ==
    /\ next_id.code_id <= MaxCodeId
    /\ \E d \in {create_code(DB, particular, categories)} : SetDB(d)
    /\ probe' = NoProbe
    /\ UNCHANGED <<req, snap>>

\* PUT /code-master/<code_id>
UpdateCode(code_id, particular, categories) ==
    /\ \E d \in {update_code(DB, code_id, particular, categories)} : SetDB(d)
    /\ probe' = NoProbe
    /\ UNCHANGED <<req, snap>>

\* DELETE /code-master/<code_id>
DeleteCode(code_id) ==
    /\ \E d \in {delete_code(DB, code_id)} : SetDB(d)
    /\ probe' = NoProbe
    /\ UNCHANGED <<req, snap>>

\* DELETE /code-master/delete-all
DeleteAllCodes ==
    /\ \E d \in {delete_all_codes(DB)} : SetDB(d)
    /\ probe' = NoProbe
    /\ UNCHANGED <<req, snap>>

\* DELETE /delete-all
DeleteAllStructuredData ==
    /\ \E d \in {delete_all_structured_data(DB)} : SetDB(d)
    /\ probe' = NoProbe
    /\ UNCHANGED <<req, snap>>

\* python fix_existing_signs.py
FixExistingData ==
    /\ \E d \in {fix_existing_data(DB)} : SetDB(d)
    /\ probe' = NoProbe
    /\ UNCHANGED <<req, snap>>

Next ==
    \/ \E u \in UploadRequests : Upload(u[1], u[2], u[3], u[4], u[5])
    \/ GetStructuredData
    \/ \E p \in ParticularChoices : UpdateByParticular(p)
    \/ \E c \in LegacyCurrencies : RecalculateAvgFxRate(c)
    \/ \E c \in LegacyCurrencies, i \in LegacyInitialRates, l \in LegacyLatestRates :
          CreateForex(c, i, l, "April")
    \/ \E c \in LegacyCurrencies, i \in LegacyInitialRates, l \in LegacyLatestRates :
          UpsertForex(c, i, l, "April")
    \/ \E e \in RatedEntities, o \in EntityOpeningRates, c \in EntityClosingRates :
          SetEntityFyForex(e, 2024, "EUR", o, c)
    \/ \E p \in ParticularChoices, c \in CategoryChoices : CreateCode(p, c)
    \/ \E id \in 1..MaxCodeId, p \in ParticularChoices, c \in CategoryChoices :
          UpdateCode(id, p, c)
    \/ \E id \in 1..MaxCodeId : DeleteCode(id)
    \/ DeleteAllCodes
    \/ DeleteAllStructuredData
    \/ FixExistingData

Spec == Init /\ [][Next]_vars

----------------------------------------------------------------------------
(* Properties of the requests served one at a time *)

\* the rate the entity record x gives a row: the average of opening and closing
\* for a P&L row, the closing rate for any other row
EntityRateFor(r, x) ==
    IF is_pl(r.mainCategory, r.category1)
    THEN (Val(x.opening_rate) + Val(x.closing_rate)) \div 2
    ELSE Val(x.closing_rate)

\* the entity_forex_rates records of a row's entity, currency and financial year
EntityRecordsOf(efr, r) ==
    {x \in efr : /\ Some(x.entity_id) = EntityIdOfCode(r.entityCode)
                 /\ x.currency = r.localCurrencyCode
                 /\ x.financial_year = r.financial_year}

\* C1: whenever a step persists Avg_Fx_Rt on a row and entity_forex_rates holds
\* a record for the row's entity, currency and financial year, the persisted
\* rate is the one derived from that record, not the legacy forex_master rate.
C1_EntityRatePreferred ==
    [][\A r \in final_structured' :
          (/\ ~IsNone(r.Avg_Fx_Rt)
           /\ ~\E q \in final_structured : q.sl_no = r.sl_no /\ q.Avg_Fx_Rt = r.Avg_Fx_Rt
           /\ EntityRecordsOf(entity_forex_rates', r) # {})
          => \E x \in EntityRecordsOf(entity_forex_rates', r) :
                 Val(r.Avg_Fx_Rt) = EntityRateFor(r, x)]_vars

\* C2: an upload of the same sheet for the same entity, month and year with the
\* same newCompany flag as the previous upload of that scope leaves the scope
\* with the same rows: same counts and same amounts in rawData and in
\* final_structured.
C2_ReuploadIdempotent ==
    [][\A s \in Scopes : snap'[s].times = 2 => snap'[s].summary = snap[s].summary]_vars

\* a scope was uploaded twice with the same sheet, and holds rows in both tables
C2_Witness ==
    \E s \in Scopes : /\ snap[s].times = 2
                      /\ snap[s].summary.raw # {}
                      /\ snap[s].summary.fs # {}
                      /\ snap[s].summary = ScopeSummary(DB, s[1], s[2], s[3])

\* C5: a final_structured row with a non-null Avg_Fx_Rt has a mainCategory that
\* is neither NULL nor blank.
C5_RateImpliesMainCategory ==
    \A r \in final_structured : ~IsNone(r.Avg_Fx_Rt) => ~IsBlank(r.mainCategory)

\* a row carries a rate while an unmapped row of the same currency carries none
C5_Witness ==
    \E r, q \in final_structured :
        /\ ~IsNone(r.Avg_Fx_Rt)
        /\ IsBlank(q.mainCategory) /\ IsNone(q.Avg_Fx_Rt)
        /\ q.localCurrencyCode = r.localCurrencyCode
        /\ ~IsNone(q.transactionAmount)

\* C6: where Avg_Fx_Rt and transactionAmount are both non-null,
\* transactionAmountUSD is transactionAmount times Avg_Fx_Rt.
C6_UsdIsAmountTimesRate ==
    \A r \in final_structured :
        (~IsNone(r.Avg_Fx_Rt) /\ ~IsNone(r.transactionAmount))
        => r.transactionAmountUSD = Some(Val(r.transactionAmount) * Val(r.Avg_Fx_Rt))

\* a row with a rate, a non-zero amount and the USD amount
C6_Witness ==
    \E r \in final_structured :
        /\ ~IsNone(r.Avg_Fx_Rt) /\ ~IsNone(r.transactionAmount)
        /\ Val(r.transactionAmount) # 0
        /\ ~IsNone(r.transactionAmountUSD) /\ Val(r.transactionAmountUSD) # 0

\* C9: running the sync twice in a row gives the same final_structured as
\* running it once.
C9_SyncIdempotent ==
    LET once == sync_final_structured_with_code_master(final_structured, code_master)
    IN  sync_final_structured_with_code_master(once, code_master) = once

\* the sync has just changed rows, and a row it wrote still has a blank
\* category column, so a second run selects it again
C9_Witness ==
    /\ probe.fn = "sync" /\ probe.rows > 0
    /\ \E r \in final_structured :
           /\ MatchingCodes(code_master, r.Particular) # {}
           /\ Categories(r) = Categories(CodeFor(code_master, r.Particular))
           /\ IsBlank(r.category3)

\* all six category columns hold a non-blank value
FullyPopulated(r) ==
    \A t \in {r.mainCategory, r.category1, r.category2, r.category3, r.category4, r.category5} :
        t # NULLT /\ Strip(Chars[t]) # <<>>

\* C10: the sync leaves every row whose six category columns are populated as
\* it was, whatever the mapping now says, and deletes no final_structured row
\* and no code_master row.
C10_SyncNonDestructive ==
    [][GetStructuredData =>
          /\ \A r \in final_structured : FullyPopulated(r) => r \in final_structured'
          /\ {r.sl_no : r \in final_structured'} = {r.sl_no : r \in final_structured}
          /\ code_master' = code_master]_vars

\* the sync has just run over a fully populated row whose mapping has changed
C10_Witness ==
    /\ probe.fn = "sync"
    /\ \E r \in final_structured :
           /\ FullyPopulated(r)
           /\ MatchingCodes(code_master, r.Particular) # {}
           /\ Categories(r) # Categories(CodeFor(code_master, r.Particular))

----------------------------------------------------------------------------
(* Two uploads in flight: every statement commits on its own connection *)

\* both requests are for entity 1, April 2024
ConcRequests ==
    { <<1, "April", 2024, 1, SheetA>>, <<1, "April", 2024, 0, SheetB>> }

RequestIds == {1, 2}

\* the tables before construction of any mapping or rate
FreshDB ==
    [raw |-> {}, fs |-> {}, cm |-> {},
     fx |-> {[fx_id |-> 1, currency |-> "EUR", initial_rate |-> None,
              latest_rate |-> None, month |-> NULLT,
            updated_at |-> today]},
     efr |-> {},
     ids |-> [sl_no |-> 1, RecordID |-> 1, code_id |-> 1, fx_id |-> 2]]

\* a mapping for Cash and a legacy EUR rate are in place
PreparedDB ==
    create_forex(create_code(FreshDB, " Cash ", CatBalanceSheet),
                 "EUR", Some(160), Some(168), "April")

\* the scope is empty, or holds the rows of an earlier upload of sheet B
InitConc ==
    /\ \E d \in {PreparedDB,
                 RunUpload(PreparedDB, NewRequest(1, "April", 2024, 0, SheetB))} :
          /\ rawData = d.raw
          /\ final_structured = d.fs
          /\ code_master = d.cm
          /\ forex_master = d.fx
          /\ entity_forex_rates = d.efr
          /\ next_id = d.ids
    /\ entities = InitialEntities
    /\ financial_years = financial_year_master
    /\ req = <<>>
    /\ snap = [s \in Scopes |-> NoSnap]
    /\ probe = NoProbe

\* POST /upload arrives and passes the validation
StartUpload(id, u) ==
    /\ id \notin DOMAIN req
    /\ id = Cardinality(DOMAIN req) + 1
    /\ req' = (id :> NewRequest(u[1], u[2], u[3], u[4], u[5])) @@ req
    /\ UNCHANGED <<rawData, final_structured, code_master, forex_master,
                   entity_forex_rates, next_id, masters, snap, probe>>

\* the request runs its next statement
StepUpload(id) ==
    /\ id \in DOMAIN req
    /\ req[id].pc # "done"
    /\ \E s \in {upload_step(DB, req[id])} :
          /\ SetDB(s.db)
          /\ req' = [req EXCEPT ![id] = s.r]
    /\ UNCHANGED <<snap, probe>>

NextConc ==
    \/ \E id \in RequestIds, u \in ConcRequests : StartUpload(id, u)
    \/ \E id \in RequestIds : StepUpload(id)

SpecConc == InitConc /\ [][NextConc]_vars

\* both requests have finished
BothDone == DOMAIN req = RequestIds /\ \A id \in RequestIds : req[id].pc = "done"

\* the two requests are for the same entity, month and year
SameScope ==
    /\ req[1].ent_id = req[2].ent_id
    /\ req[1].month_name = req[2].month_name
    /\ req[1].year = req[2].year

\* the final_structured rows of the scope of request 1
ScopeRows ==
    {x \in final_structured :
        InStructuredScope(x, get_entity_details(req[1].ent_id)[1].ent_code,
                          req[1].month_name, req[1].year)}

\* the normalized key: particular, entity code, selected month, year, month
\* label, amount
NormalizedKey(x) ==
    <<LowerSeq(Strip(Chars[x.Particular])), LowerSeq(Strip(Chars[x.entityCode])),
      LowerSeq(Strip(Chars[x.selectedMonth])), x.Year,
      LowerSeq(Strip(Chars[x.Month])), x.transactionAmount>>

\* C3: after two concurrent uploads of the same sheet for the same scope have
\* both finished, no two final_structured rows of the scope have the same
\* normalized key.
C3_NoDuplicatesAfterConcurrentUploads ==
    (BothDone /\ SameScope /\ req[1].sheet = req[2].sheet)
    => \A x, y \in ScopeRows : x # y => NormalizedKey(x) # NormalizedKey(y)

\* both requests inserted rows of the same sheet while neither saw the other's
\* (rawData holds the first line twice), and the scope is left with fewer rows
\* than were inserted
C3_Witness ==
    /\ BothDone /\ SameScope /\ req[1].sheet = req[2].sheet
    /\ \A id \in RequestIds : req[id].records_inserted > 0
    /\ \E a, b \in rawData : a.RecordID # b.RecordID /\ a.Particular = b.Particular
                             /\ a.EntityID = b.EntityID /\ a.Year = b.Year
    /\ ScopeRows # {}
    /\ Cardinality(ScopeRows) < req[1].records_inserted + req[2].records_inserted

\* the rows the scope holds after an upload of request id's sheet on its own
SheetAlone(id) ==
    ScopeSummary(RunUpload(DB, NewRequest(req[id].ent_id, req[id].month_name, req[id].year,
                                          req[id].new_company, req[id].sheet)),
                 req[id].ent_id, req[id].month_name, req[id].year)

\* C4: after two concurrent uploads of different sheets for the same scope have
\* both finished, rawData and final_structured hold for the scope exactly the
\* rows of one of the two sheets.
C4_ScopeHoldsOneSheet ==
    (BothDone /\ SameScope /\ req[1].sheet # req[2].sheet)
    => \E id \in RequestIds :
           ScopeSummary(DB, req[1].ent_id, req[1].month_name, req[1].year) = SheetAlone(id)

----------------------------------------------------------------------------
(* A spreadsheet cell parsed on its own *)

\* the number texts of the cells, each with its value in cents
CellMagnitudes ==
    { << <<"0">>, 0 >>, << <<"7","0">>, 7000 >>, << <<"1",",","0","0","0">>, 100000 >>,
      << <<"2","5","0",".","5","0">>, 25050 >>, << <<"0",".","0","5">>, 5 >> }

\* the text after the number
CellMarkers ==
    { <<>>, <<" ","D","r">>, <<" ","C","r">>, <<"C","r">>, <<" ","c","r">>, <<" ","D","R"," ">> }

\* cells without a number
CellBlanks == { <<>>, <<"n","a","n">>, <<"N","o","n","e">>, <<" ","D","r">>, <<",">> }

\* a cell as the spreadsheet holds it, with the signed value of its number
CellInputs ==
    {[cell  |-> (IF neg THEN <<"-">> ELSE <<>>) \o m[1] \o k,
      value |-> Some(IF neg THEN -m[2] ELSE m[2])] :
        neg \in BOOLEAN, m \in CellMagnitudes, k \in CellMarkers}
    \cup {[cell |-> b, value |-> None] : b \in CellBlanks}

InitParse ==
    /\ rawData = {} /\ final_structured = {} /\ code_master = {}
    /\ forex_master = {} /\ entity_forex_rates = {}
    /\ next_id = [sl_no |-> 1, RecordID |-> 1, code_id |-> 1, fx_id |-> 1]
    /\ entities = InitialEntities
    /\ financial_years = financial_year_master
    /\ req = <<>>
    /\ snap = [s \in Scopes |-> NoSnap]
    /\ \E c \in CellInputs :
          probe = [fn |-> "amt_tb_lc", cell |-> c.cell, value |-> c.value,
                   applied |-> FALSE, amt_tb_lc |-> None]

\* amount, amount_type = parse_amount_and_type(cell); calculate_amt_tb_lc(amount, amount_type)
ParseCell ==
    /\ probe.fn = "amt_tb_lc" /\ ~probe.applied
    /\ probe' = [probe EXCEPT
                   !.applied = TRUE,
                   !.amt_tb_lc = calculate_amt_tb_lc(parse_amount_and_type(probe.cell)[1],
                                                     parse_amount_and_type(probe.cell)[2])]
    /\ UNCHANGED <<rawData, final_structured, code_master, forex_master,
                   entity_forex_rates, next_id, masters, req, snap>>

NextParse == ParseCell

SpecParse == InitParse /\ [][NextParse]_vars

\* C8: the amount a cell gives a final_structured row is positive exactly when
\* the number in the cell is positive and negative exactly when it is
\* negative, whatever Dr or Cr text the cell holds.
C8_SignFollowsNumber ==
    (probe.fn = "amt_tb_lc" /\ probe.applied /\ ~IsNone(probe.amt_tb_lc))
    => /\ ~IsNone(probe.value)
       /\ Val(probe.amt_tb_lc) > 0 <=> Val(probe.value) > 0
       /\ Val(probe.amt_tb_lc) < 0 <=> Val(probe.value) < 0

\* a negative number followed by Dr has given a negative amount
C8_Witness ==
    /\ probe.fn = "amt_tb_lc" /\ probe.applied
    /\ Contains(probe.cell, <<"D","r">>)
    /\ ~IsNone(probe.value) /\ Val(probe.value) < 0
    /\ ~IsNone(probe.amt_tb_lc) /\ Val(probe.amt_tb_lc) = Val(probe.value)

----------------------------------------------------------------------------
(* The rate convention applied on its own *)

RateMainCategories == {"Assets", "Income", "Balance Sheet", "Profit and Loss", "P&L Items"}
RateCategory1s == {NULLT, "", "Sub", "Balance Sheet", "Profit and Loss", " PROFIT & LOSS"}
RateOpenings == {Some(160), Some(180)}
RateClosings == {Some(168), Some(184)}

InitRate ==
    /\ rawData = {} /\ final_structured = {} /\ code_master = {}
    /\ forex_master = {} /\ entity_forex_rates = {}
    /\ next_id = [sl_no |-> 1, RecordID |-> 1, code_id |-> 1, fx_id |-> 1]
    /\ entities = InitialEntities
    /\ financial_years = financial_year_master
    /\ req = <<>>
    /\ snap = [s \in Scopes |-> NoSnap]
    /\ \E m \in RateMainCategories, c \in RateCategory1s,
          o \in RateOpenings, l \in RateClosings :
          probe = [fn |-> "rate", mainCategory |-> m, category1 |-> c,
                   fx |-> [opening_rate |-> o, closing_rate |-> l,
                           initial_rate |-> o, latest_rate |-> l],
                   applied |-> FALSE, rate |-> None]

\* the rate branch on a row with these categories and this cache entry
ApplyRate ==
    /\ probe.fn = "rate" /\ ~probe.applied
    /\ probe' = [probe EXCEPT
                   !.applied = TRUE,
                   !.rate = EffectiveRate(is_pl(probe.mainCategory, probe.category1), probe.fx)]
    /\ UNCHANGED <<rawData, final_structured, code_master, forex_master,
                   entity_forex_rates, next_id, masters, req, snap>>

NextRate == ApplyRate

SpecRate == InitRate /\ [][NextRate]_vars

\* a label names the statement: its text, case and outer blanks aside, holds
\* one of the synonyms
Names(t, synonyms) ==
    /\ t # NULLT
    /\ \E w \in synonyms : Contains(LowerSeq(Strip(Chars[t])), LowerSeq(w))

ProfitAndLossSynonyms ==
    { <<"p","r","o","f","i","t"," ","a","n","d"," ","l","o","s","s">>,
      <<"p","r","o","f","i","t"," ","&"," ","l","o","s","s">>, <<"p","&","l">> }
BalanceSheetSynonyms == { <<"b","a","l","a","n","c","e"," ","s","h","e","e","t">> }

ClassifiedPL ==
    \/ Names(probe.mainCategory, ProfitAndLossSynonyms)
    \/ Names(probe.category1, ProfitAndLossSynonyms)
ClassifiedBS ==
    \/ Names(probe.mainCategory, BalanceSheetSynonyms)
    \/ Names(probe.category1, BalanceSheetSynonyms)

----------------------------------------------------------------------------
(* Entity hierarchy: descendant resolution *)

MaxEntId == 4    \* hierarchies have the entities 1..MaxEntId

\* the elements of a set of numbers in ascending order
RECURSIVE Ascending(_)
Ascending(S) ==
    IF S = {} THEN <<>>
    ELSE Let(CHOOSE m \in S : \A x \in S : m <= x, LAMBDA least :
             <<least>> \o Ascending(S \ {least}))

\* SELECT ent_id FROM entity_master WHERE parent_entity_id = %s (the claim does
\* not depend on the order of the rows; they are taken by ent_id)
ChildrenOf(em, entity_id) ==
    Ascending({e.ent_id : e \in {x \in em : x.parent_entity_id = Some(entity_id)}})

\* seen / unique_ids: the first occurrence of every id, in order
RECURSIVE Unique(_)
Unique(ids) ==
    IF ids = <<>> THEN <<>>
    ELSE Let(Unique(SubSeq(ids, 1, Len(ids) - 1)), LAMBDA unique_ids :
             IF \E i \in 1..Len(unique_ids) : unique_ids[i] = ids[Len(ids)]
             THEN unique_ids ELSE Append(unique_ids, ids[Len(ids)]))

\* the mutant: the entity and its children, without the recursion
get_all_descendant_entity_ids_ChildrenOnly(em, entity_id) ==
    Unique(<<entity_id>> \o ChildrenOf(em, entity_id))

\* _get_all_descendant_entity_ids(entity_id): the entity, then the descendants
\* of each child, duplicates removed
RECURSIVE get_all_descendant_entity_ids(_, _)
RECURSIVE ExtendWithChildren(_, _, _)
ExtendWithChildren(em, descendant_ids, children) ==
    IF children = <<>> THEN descendant_ids
    ELSE Let(descendant_ids \o get_all_descendant_entity_ids(em, Head(children)),
             LAMBDA extended : ExtendWithChildren(em, extended, Tail(children)))

get_all_descendant_entity_ids(em, entity_id) ==
    Let(ChildrenOf(em, entity_id), LAMBDA children :
        Unique(ExtendWithChildren(em, <<entity_id>>, children)))

\* the ancestors of an entity through at most n parent references
RECURSIVE AncestorsWithin(_, _, _)
AncestorsWithin(em, id, n) ==
    IF n = 0 THEN {}
    ELSE Let({Val(e.parent_entity_id) :
                 e \in {x \in em : x.ent_id = id /\ ~IsNone(x.parent_entity_id)}},
             LAMBDA parents :
                 parents \cup UNION {AncestorsWithin(em, q, n - 1) : q \in parents})

Ancestors(em, id) == AncestorsWithin(em, id, Cardinality(em))

\* no entity is its own ancestor
Acyclic(em) == \A e \in em : e.ent_id \notin Ancestors(em, e.ent_id)

\* every acyclic hierarchy of the entities 1..MaxEntId
Hierarchies ==
    {em \in {{[ent_id |-> i, lcl_curr |-> "EUR", parent_entity_id |-> f[i]] : i \in 1..MaxEntId} :
                f \in [1..MaxEntId -> {None} \cup {Some(q) : q \in 1..MaxEntId}]} :
        Acyclic(em)}

InitHierarchy ==
    /\ rawData = {} /\ final_structured = {} /\ code_master = {}
    /\ forex_master = {} /\ entity_forex_rates = {}
    /\ next_id = [sl_no |-> 1, RecordID |-> 1, code_id |-> 1, fx_id |-> 1]
    /\ entities \in Hierarchies
    /\ financial_years = financial_year_master
    /\ req = <<>>
    /\ snap = [s \in Scopes |-> NoSnap]
    /\ probe = NoProbe

\* a read filtered by entity resolves the entity's descendants
ResolveDescendants(entity_id) ==
    /\ probe = NoProbe
    /\ probe' = [fn |-> "descendants", entity_id |-> entity_id,
                 ids |-> get_all_descendant_entity_ids(entities, entity_id)]
    /\ UNCHANGED <<rawData, final_structured, code_master, forex_master,
                   entity_forex_rates, next_id, masters, req, snap>>

NextHierarchy == \E entity_id \in 1..MaxEntId : ResolveDescendants(entity_id)

SpecHierarchy == InitHierarchy /\ [][NextHierarchy]_vars

\* C11: on an acyclic hierarchy, descendant resolution returns the root and
\* all of its transitive descendants, and nothing else, each id once.
C11_HierarchyClosure ==
    probe.fn = "descendants" =>
        /\ {probe.ids[i] : i \in 1..Len(probe.ids)}
              = {probe.entity_id}
                \cup {e.ent_id : e \in {x \in entities :
                                           probe.entity_id \in Ancestors(entities, x.ent_id)}}
        /\ \A i, j \in 1..Len(probe.ids) : probe.ids[i] = probe.ids[j] => i = j

\* a root with a child and a grandchild has been resolved to three ids
C11_Witness ==
    /\ probe.fn = "descendants"
    /\ Len(probe.ids) = 3
    /\ \E c, g \in entities :
          /\ c.parent_entity_id = Some(probe.entity_id)
          /\ g.parent_entity_id = Some(c.ent_id)

----------------------------------------------------------------------------
(* Entity hierarchy: create_entity, update_entity, delete_entity *)

\* payload.get('parent_entity_id'): the key is absent, null, a JSON integer, or a
\* JSON text with the digits of a number
JsonAbsent == [json |-> "absent", n |-> 0]
JsonNull == [json |-> "null", n |-> 0]
JsonInt(n) == [json |-> "int", n |-> n]
JsonText(n) == [json |-> "text", n |-> n]

\* parent_entity_id is not None
IsGiven(v) == v.json \in {"int", "text"}

\* isinstance(parent_entity_id, int) and parent_entity_id > 0
IsPositiveInt(v) == v.json = "int" /\ v.n > 0

\* the value of the column after the INSERT or UPDATE: the number, also when
\* the parameter is a text of digits (the server converts it)
ColumnValue(v) ==
    IF ~IsGiven(v) \/ (v.json = "int" /\ v.n = 0) THEN None ELSE Some(v.n)

\* the entity ids n levels below the ids
RECURSIVE Level(_, _, _)
Level(em, ids, n) ==
    IF n = 0 THEN ids
    ELSE Let({e.ent_id : e \in {x \in em : \E i \in ids : x.parent_entity_id = Some(i)}},
             LAMBDA children : Level(em, children, n - 1))

\* _get_all_descendants never returns: the recursion runs into a cycle
RecursionFails(em, entity_id) == Level(em, {entity_id}, Cardinality(em) + 1) # {}

\* _get_all_descendants(entity_id): children, grandchildren, ... (only
\* membership is asked of the list)
get_all_descendants(em, entity_id) ==
    UNION {Level(em, {entity_id}, n) : n \in 1..Cardinality(em)}

\* _would_create_circular_reference(child_id, parent_id)
would_create_circular_reference(em, child_id, parent_id) ==
    child_id = parent_id \/ parent_id \in get_all_descendants(em, child_id)

\* forex_master gets the currency with NULL rates if it has no row for it
EnsureCurrency(db, lcl_curr) ==
    IF \E f \in db.fx : SqlEq(f.currency, lcl_curr) THEN db
    ELSE InsertForex(db, lcl_curr, None, None, NULLT)

\* create_entity: [em, db] after the request (name and code are given)
create_entity(em, db, lcl_curr, parent_entity_id) ==
    IF IsPositiveInt(parent_entity_id)
       /\ ~ \E e \in em : e.ent_id = parent_entity_id.n
    THEN [em |-> em, db |-> db]
    ELSE [em |-> em \cup {[ent_id |-> db.ids.ent_id, lcl_curr |-> lcl_curr,
                            parent_entity_id |-> ColumnValue(parent_entity_id)]},
          db |-> EnsureCurrency([db EXCEPT !.ids.ent_id = @ + 1], lcl_curr)]

\* update_entity: [em, db] after the request (name and code are given)
update_entity(em, db, ent_id, lcl_curr, parent_entity_id) ==
    IF ~ \E e \in em : e.ent_id = ent_id THEN [em |-> em, db |-> db]
    ELSE IF IsPositiveInt(parent_entity_id)
            /\ \/ parent_entity_id.n = ent_id
               \/ ~ \E e \in em : e.ent_id = parent_entity_id.n
               \/ RecursionFails(em, ent_id)
               \/ would_create_circular_reference(em, ent_id, parent_entity_id.n)
    THEN [em |-> em, db |-> db]
    ELSE Let(CHOOSE e \in em : e.ent_id = ent_id, LAMBDA existing :
             [em |-> (em \ {existing}) \cup
                       {[existing EXCEPT
                           !.lcl_curr = lcl_curr,
                           !.parent_entity_id =
                               IF parent_entity_id.json = "absent" THEN @
                               ELSE ColumnValue(parent_entity_id)]},
              db |-> IF lcl_curr # existing.lcl_curr THEN EnsureCurrency(db, lcl_curr)
                     ELSE db])

\* delete_entity: the row is deleted, whatever refers to it
delete_entity(em, ent_id) == {e \in em : e.ent_id # ent_id}

EntityCurrencies == {"EUR", "USD"}
ParentPayloads ==
    {JsonAbsent, JsonNull, JsonInt(0)}
    \cup {JsonInt(n) : n \in 1..MaxEntId} \cup {JsonText(n) : n \in 1..MaxEntId}

\* the two entities of entity_master, their currency in forex_master
InitEntity ==
    /\ rawData = {} /\ final_structured = {} /\ code_master = {}
    /\ forex_master = {[fx_id |-> 1, currency |-> "EUR", initial_rate |-> None,
                        latest_rate |-> None, month |-> NULLT,
            updated_at |-> today]}
    /\ entity_forex_rates = {}
    /\ next_id = [sl_no |-> 1, RecordID |-> 1, code_id |-> 1, fx_id |-> 2, ent_id |-> 3]
    /\ entities = InitialEntities
    /\ financial_years = financial_year_master
    /\ req = <<>>
    /\ snap = [s \in Scopes |-> NoSnap]
    /\ probe = NoProbe

\* POST /entities
CreateEntity(lcl_curr, parent_entity_id) ==
    /\ next_id.ent_id <= MaxEntId
    /\ \E s \in {create_entity(entities, DB, lcl_curr, parent_entity_id)} :
          /\ entities' = s.em
          /\ forex_master' = s.db.fx
          /\ next_id' = s.db.ids
    /\ UNCHANGED <<rawData, final_structured, code_master, entity_forex_rates,
                   financial_years, req, snap, probe>>

\* PUT /entities/<ent_id>
UpdateEntity(ent_id, lcl_curr, parent_entity_id) ==
    /\ \E s \in {update_entity(entities, DB, ent_id, lcl_curr, parent_entity_id)} :
          /\ entities' = s.em
          /\ forex_master' = s.db.fx
          /\ next_id' = s.db.ids
    /\ UNCHANGED <<rawData, final_structured, code_master, entity_forex_rates,
                   financial_years, req, snap, probe>>

\* DELETE /entities/<ent_id>
DeleteEntity(ent_id) ==
    /\ entities' = delete_entity(entities, ent_id)
    /\ UNCHANGED <<rawData, final_structured, code_master, forex_master,
                   entity_forex_rates, next_id, financial_years, req, snap, probe>>

NextEntity ==
    \/ \E c \in EntityCurrencies, q \in ParentPayloads : CreateEntity(c, q)
    \/ \E e \in 1..MaxEntId, c \in EntityCurrencies, q \in ParentPayloads :
          UpdateEntity(e, c, q)
    \/ \E e \in 1..MaxEntId : DeleteEntity(e)

SpecEntity == InitEntity /\ [][NextEntity]_vars

\* C12: whatever parent_entity_id the create and update payloads carry, no
\* entity is its own ancestor through parent references.
C12_NoEntityIsOwnAncestor == Acyclic(entities)

----------------------------------------------------------------------------
(* Code master: create, update by id, bulk upload, delete *)

MaxCodes == 3    \* mappings are added while the next code_id is at most this

\* upload_code_master_file: each line of the sheet with a RawParticulars and a
\* mainCategory goes through the INSERT ... ON DUPLICATE KEY UPDATE of
\* create_code, after the same strip and '' as NULL
RECURSIVE upload_code_master_file(_, _)
upload_code_master_file(db, rows) ==
    IF rows = <<>> THEN db
    ELSE Let(create_code(db, Head(rows).RawParticulars, Head(rows).categories),
             LAMBDA d : upload_code_master_file(d, Tail(rows)))

CodeParticulars == {"Cash", "CASH", " Cash ", "Sales"}
CodeSheets ==
    { << [RawParticulars |-> "CASH", categories |-> CatProfitLoss],
         [RawParticulars |-> "Sales", categories |-> CatBalanceSheet] >>,
      << [RawParticulars |-> " Cash ", categories |-> CatBalanceSheet],
         [RawParticulars |-> "Cash", categories |-> CatProfitLoss] >> }

InitCode ==
    /\ rawData = {} /\ final_structured = {} /\ code_master = {}
    /\ forex_master = {} /\ entity_forex_rates = {}
    /\ next_id = [sl_no |-> 1, RecordID |-> 1, code_id |-> 1, fx_id |-> 1]
    /\ entities = InitialEntities
    /\ financial_years = financial_year_master
    /\ req = <<>>
    /\ snap = [s \in Scopes |-> NoSnap]
    /\ probe = NoProbe

\* POST /code-master; probe keeps what was asked and whether the key existed
PostCode(particular, categories) ==
    /\ next_id.code_id <= MaxCodes
    /\ \E d \in {create_code(DB, particular, categories)} : SetDB(d)
    /\ probe' = [fn |-> "create_code", particular |-> particular,
                 categories |-> StoredCategories(categories),
                 existed |-> \E m \in code_master : Norm(m.RawParticulars) = Norm(particular)]
    /\ UNCHANGED <<req, snap>>

\* PUT /code-master/<code_id>
PutCode(code_id, particular, categories) ==
    /\ \E d \in {update_code(DB, code_id, particular, categories)} : SetDB(d)
    /\ probe' = NoProbe
    /\ UNCHANGED <<req, snap>>

\* POST /code-master/upload
UploadCodeMaster(rows) ==
    /\ next_id.code_id <= MaxCodes
    /\ \E d \in {upload_code_master_file(DB, rows)} : SetDB(d)
    /\ probe' = NoProbe
    /\ UNCHANGED <<req, snap>>

\* DELETE /code-master/<code_id>
DeleteCodeById(code_id) ==
    /\ \E d \in {delete_code(DB, code_id)} : SetDB(d)
    /\ probe' = NoProbe
    /\ UNCHANGED <<req, snap>>

NextCode ==
    \/ \E q \in CodeParticulars, c \in CategoryChoices : PostCode(q, c)
    \/ \E i \in 1..MaxCodes, q \in CodeParticulars, c \in CategoryChoices : PutCode(i, q, c)
    \/ \E rows \in CodeSheets : UploadCodeMaster(rows)
    \/ \E i \in 1..MaxCodes : DeleteCodeById(i)

SpecCode == InitCode /\ [][NextCode]_vars

----------------------------------------------------------------------------
(* Financial year master: create, update, soft delete *)

MaxFyRows == 3    \* periods are created while the table has fewer rows than this

\* check_overlapping_dates without the two containment clauses
check_overlapping_dates_EndpointsOnly(fy, start_date, end_date, exclude_id) ==
    \/ DateLE(end_date, start_date)
    \/ \E p \in fy :
          /\ p.is_active = 1
          /\ p.id # (IF IsNone(exclude_id) THEN 0 ELSE Val(exclude_id))
          /\ \/ DateLE(p.start_date, start_date) /\ DateLE(start_date, p.end_date)
             \/ DateLE(p.start_date, end_date) /\ DateLE(end_date, p.end_date)

\* check_overlapping_dates(start_date, end_date, exclude_id)['overlaps']
check_overlapping_dates(fy, start_date, end_date, exclude_id) ==
    \/ DateLE(end_date, start_date)
    \/ \E p \in fy :
          /\ p.is_active = 1
          /\ p.id # (IF IsNone(exclude_id) THEN 0 ELSE Val(exclude_id))
          /\ \/ DateLE(p.start_date, start_date) /\ DateLE(start_date, p.end_date)
             \/ DateLE(p.start_date, end_date) /\ DateLE(end_date, p.end_date)
             \/ DateLE(start_date, p.start_date) /\ DateLE(p.start_date, end_date)
             \/ DateLE(start_date, p.end_date) /\ DateLE(p.end_date, end_date)

\* create_financial_year: the table after POST /financial-year-master; the
\* id is the AUTO_INCREMENT of a table no handler deletes from
create_financial_year(fy, financial_year, start_date, end_date, is_active) ==
    IF DateLE(end_date, start_date) THEN fy
    ELSE IF check_overlapping_dates(fy, start_date, end_date, None) THEN fy
    ELSE IF \E p \in fy : p.financial_year = financial_year THEN fy
    ELSE fy \cup {[id |-> Cardinality(fy) + 1, financial_year |-> financial_year,
                   is_active |-> IF is_active THEN 1 ELSE 0,
                   start_date |-> start_date, end_date |-> end_date]}

\* the row of update_financial_year's UPDATE: a date or is_active the payload
\* lacks is the row's current one
UpdatedPeriod(current, start_date, end_date, is_active) ==
    [current EXCEPT
        !.start_date = IF IsNone(start_date) THEN current.start_date ELSE Val(start_date),
        !.end_date = IF IsNone(end_date) THEN current.end_date ELSE Val(end_date),
        !.is_active = IF IsNone(is_active) THEN current.is_active
                      ELSE IF Val(is_active) THEN 1 ELSE 0]

\* update_financial_year: the table after PUT /financial-year-master/<fy_id>
update_financial_year(fy, fy_id, start_date, end_date, is_active) ==
    IF ~\E p \in fy : p.id = fy_id THEN fy
    ELSE Let(UpdatedPeriod(CHOOSE p \in fy : p.id = fy_id, start_date, end_date, is_active),
             LAMBDA n :
                IF DateLE(n.end_date, n.start_date) THEN fy
                ELSE IF check_overlapping_dates(fy, n.start_date, n.end_date, Some(fy_id))
                     THEN fy
                ELSE {p \in fy : p.id # fy_id} \cup {n})

\* delete_financial_year: the soft delete sets is_active = 0
delete_financial_year(fy, fy_id) ==
    {IF p.id = fy_id THEN [p EXCEPT !.is_active = 0] ELSE p : p \in fy}

FyDates == {<<2024, 4, 1>>, <<2025, 3, 31>>, <<2025, 4, 1>>, <<2026, 3, 31>>}
FyLabels == {<<2024, 25>>, <<2025, 26>>, <<2026, 27>>}
OptionalDates == {None} \cup {Some(d) : d \in FyDates}
OptionalFlags == {None, Some(TRUE), Some(FALSE)}

InitFy ==
    /\ rawData = {} /\ final_structured = {} /\ code_master = {}
    /\ forex_master = {} /\ entity_forex_rates = {}
    /\ next_id = [sl_no |-> 1, RecordID |-> 1, code_id |-> 1, fx_id |-> 1]
    /\ entities = InitialEntities
    /\ financial_years = financial_year_master
    /\ req = <<>>
    /\ snap = [s \in Scopes |-> NoSnap]
    /\ probe = NoProbe

FyUnchanged ==
    UNCHANGED <<rawData, final_structured, code_master, forex_master,
                entity_forex_rates, next_id, entities, req, snap, probe>>

\* POST /financial-year-master
CreateFinancialYear(financial_year, start_date, end_date, is_active) ==
    /\ Cardinality(financial_years) < MaxFyRows
    /\ financial_years' = create_financial_year(financial_years, financial_year,
                                                start_date, end_date, is_active)
    /\ FyUnchanged

\* PUT /financial-year-master/<fy_id>
UpdateFinancialYear(fy_id, start_date, end_date, is_active) ==
    /\ financial_years' = update_financial_year(financial_years, fy_id,
                                                start_date, end_date, is_active)
    /\ FyUnchanged

\* DELETE /financial-year-master/<fy_id>
DeleteFinancialYear(fy_id) ==
    /\ financial_years' = delete_financial_year(financial_years, fy_id)
    /\ FyUnchanged

NextFy ==
    \/ \E l \in FyLabels, s \in FyDates, e \in FyDates, a \in BOOLEAN :
          CreateFinancialYear(l, s, e, a)
    \/ \E i \in 1..MaxFyRows, s \in OptionalDates, e \in OptionalDates, a \in OptionalFlags :
          UpdateFinancialYear(i, s, e, a)
    \/ \E i \in 1..MaxFyRows : DeleteFinancialYear(i)

SpecFy == InitFy /\ [][NextFy]_vars

\* two periods share at least one day
PeriodsIntersect(a, b) ==
    DateLE(a.start_date, b.end_date) /\ DateLE(b.start_date, a.end_date)

\* C14: no two active rows of financial_year_master have date ranges that
\* share a day.
C14_ActivePeriodsDisjoint ==
    \A a, b \in financial_years :
        a # b /\ a.is_active = 1 /\ b.is_active = 1 => ~PeriodsIntersect(a, b)

\* two active periods next to a deactivated one whose range meets one of them
C14_Witness ==
    \E a, b, c \in financial_years :
        /\ a # b /\ a.is_active = 1 /\ b.is_active = 1
        /\ c.is_active = 0 /\ PeriodsIntersect(a, c)

----------------------------------------------------------------------------
(* Ingestion: the rows one upload writes for the lines of its sheet *)

MaxIngestSlNo == 5    \* uploads start while the next sl_no is at most this

\* a sheet with the line Cash / 1000 / -200, a line that repeats it in other
\* letters, a line whose cells hold no number and a line without a particular
SheetC ==
    << [Particular |-> "Cash", Opening |-> <<"1","0","0","0">>,
        Transaction |-> <<"-","2","0","0">>, Closing |-> <<"8","0","0">>],
       [Particular |-> "CASH", Opening |-> <<"1","0","0","0">>,
        Transaction |-> <<"7","0">>, Closing |-> <<>>],
       [Particular |-> "Sales", Opening |-> <<"n","a","n">>,
        Transaction |-> <<>>, Closing |-> <<>>],
       [Particular |-> "", Opening |-> <<"5">>,
        Transaction |-> <<"5">>, Closing |-> <<>>] >>

IngestRequests ==
    {<<e, "April", 2024, n, s>> : e \in {1, 2}, n \in {0, 1}, s \in {SheetA, SheetB, SheetC}}

\* POST /upload with no other upload in flight; probe keeps the request and
\* the sl_no the first INSERT of the upload gets
Ingest(ent_id, month_name, year, new_company, sheet) ==
    /\ req = <<>>
    /\ next_id.sl_no <= MaxIngestSlNo
    /\ UploadAccepted(ent_id, month_name, year)
    /\ \E d \in {RunUpload(DB, NewRequest(ent_id, month_name, year, new_company, sheet))} :
          SetDB(d)
    /\ probe' = [fn |-> "upload", ent_id |-> ent_id, month_name |-> month_name,
                 new_company |-> new_company, sheet |-> sheet,
                 first_sl_no |-> next_id.sl_no]
    /\ UNCHANGED <<req, snap>>

NextIngest == \E u \in IngestRequests : Ingest(u[1], u[2], u[3], u[4], u[5])

SpecIngest == Init /\ [][NextIngest]_vars

\* the final_structured rows the last upload wrote
Written == {x \in final_structured : x.sl_no >= probe.first_sl_no}

\* the lines of the last upload's sheet that have a particular
ParticularLines == {i \in 1..Len(probe.sheet) : probe.sheet[i].Particular # ""}

\* the cell holds a number; the signed amount it stands for
HoldsNumber(cell) == ~IsNone(parse_amount_and_type(cell)[1])
SignedAmount(cell) ==
    Let(parse_amount_and_type(cell), LAMBDA p : calculate_amt_tb_lc(p[1], p[2]))

\* the lines that repeat the particular of line i and are due a row for the
\* month label: "Opening" from the Opening cell of a newCompany upload, the
\* upload's month from the Transaction cell
DueLike(i, month) ==
    {j \in ParticularLines :
        /\ Norm(probe.sheet[j].Particular) = Norm(probe.sheet[i].Particular)
        /\ IF month = "Opening"
           THEN probe.new_company = 1 /\ HoldsNumber(probe.sheet[j].Opening)
           ELSE HoldsNumber(probe.sheet[j].Transaction)}
DueAmount(j, month) ==
    SignedAmount(IF month = "Opening" THEN probe.sheet[j].Opening
                 ELSE probe.sheet[j].Transaction)
WrittenLike(i, month) ==
    {x \in Written : /\ Norm(x.Particular) = Norm(probe.sheet[i].Particular)
                     /\ x.Month = month}

\* C15: after an upload, the rows written for a particular and a month label
\* ("Opening", the upload's month) are one per distinct amount of the lines
\* due that label, with those amounts; a line that repeats the particular and
\* amount of an earlier line adds no row; every written row carries the
\* upload's month as selectedMonth.
C15_RowsPerLine ==
    probe.fn = "upload" =>
        /\ \A x \in Written : x.selectedMonth = probe.month_name
                              /\ x.Month \in {"Opening", probe.month_name}
                              /\ \E i \in ParticularLines :
                                    Norm(x.Particular) = Norm(probe.sheet[i].Particular)
        /\ \A i \in ParticularLines : \A month \in {"Opening", probe.month_name} :
              /\ {x.transactionAmount : x \in WrittenLike(i, month)} =
                     {DueAmount(j, month) : j \in DueLike(i, month)}
              /\ Cardinality(WrittenLike(i, month)) =
                     Cardinality({DueAmount(j, month) : j \in DueLike(i, month)})

\* the statement with one row for every due line
C15_OneRowForEveryLine ==
    probe.fn = "upload" =>
        \A i \in ParticularLines : \A month \in {"Opening", probe.month_name} :
            Cardinality(WrittenLike(i, month)) = Cardinality(DueLike(i, month))

\* the newCompany upload of Cash / 1000 / -200 wrote Opening 1000 and April -200
C15_Witness ==
    /\ probe.fn = "upload" /\ probe.new_company = 1 /\ probe.sheet = SheetC
    /\ \E x, y \in Written :
          /\ x.Particular = "Cash" /\ x.Month = "Opening"
          /\ x.transactionAmount = Some(100000) /\ x.selectedMonth = "April"
          /\ y.Particular = "Cash" /\ y.Month = "April"
          /\ y.transactionAmount = Some(-20000) /\ y.selectedMonth = "April"
    /\ Cardinality(Written) = 3

----------------------------------------------------------------------------
(* Hard de-duplication of a scope of final_structured *)

MaxDedupSlNo == 4    \* the table holds rows with sl_no 1 .. MaxDedupSlNo

\* what the rows of the table can be: lines as an upload inserts them
DedupLines ==
    {[particular |-> q, ent_code |-> "E1", month |-> "April", amt_tb_lc |-> Some(a)] :
        q \in {"Cash", "CASH"}, a \in {7000, -7000}}
    \cup {[particular |-> "Sales", ent_code |-> "E1", month |-> "April",
           amt_tb_lc |-> Some(7000)],
          [particular |-> "Cash", ent_code |-> "E1", month |-> "Opening",
           amt_tb_lc |-> Some(7000)],
          [particular |-> "Cash", ent_code |-> "E2", month |-> "April",
           amt_tb_lc |-> Some(7000)]}

\* the final_structured row with sl_no n of a line
DedupRow(n, l) ==
    StructuredRow([ids |-> [sl_no |-> n]],
                  [particular |-> l.particular, ent_code |-> l.ent_code,
                   local_currency_code |-> "EUR", year |-> 2024,
                   selectedMonth |-> "April", month |-> l.month, coa |-> NoCategories,
                   amt_tb_lc |-> l.amt_tb_lc])

\* the tables: one row or none for each sl_no
DedupTables ==
    {{DedupRow(n, t[n]) : n \in {k \in 1..MaxDedupSlNo : t[k] \in DedupLines}} :
        t \in [1..MaxDedupSlNo -> DedupLines \cup {<<>>}]}

DedupScopes == {<<e.ent_code, "April", 2024>> : e \in entity_master}

InitDedup ==
    /\ rawData = {} /\ code_master = {}
    /\ final_structured \in DedupTables
    /\ forex_master = {} /\ entity_forex_rates = {}
    /\ next_id = [sl_no |-> MaxDedupSlNo + 1, RecordID |-> 1, code_id |-> 1, fx_id |-> 1]
    /\ entities = InitialEntities
    /\ financial_years = financial_year_master
    /\ req = <<>>
    /\ snap = [s \in Scopes |-> NoSnap]
    /\ probe = NoProbe

\* deduplicate_final_structured_for_entity_month_year(entity_code, month_name,
\* year); probe keeps the 'deleted' count it returns, after that of the run
\* before when that run was of the same scope
HardDedup(s) ==
    /\ final_structured' = deduplicate_final_structured(final_structured, s[1], s[2], s[3])
    /\ \E n \in {Cardinality(final_structured) - Cardinality(final_structured')} :
          probe' = [fn |-> "dedup", scope |-> s,
                    deleted |-> IF probe.fn = "dedup" /\ probe.scope = s
                                THEN <<probe.deleted[Len(probe.deleted)], n>>
                                ELSE <<n>>]
    /\ UNCHANGED <<rawData, code_master, forex_master, entity_forex_rates, next_id,
                   masters, req, snap>>

NextDedup == \E s \in DedupScopes : HardDedup(s)

SpecDedup == InitDedup /\ [][NextDedup]_vars

\* the rows of a scope in a table
InScope(fs, s) == {x \in fs : InStructuredScope(x, s[1], s[2], s[3])}

\* C16: a hard dedup of a scope whose rows have pairwise distinct normalized
\* keys deletes no row, and a hard dedup that follows a hard dedup of the same
\* scope deletes no row.
C16_HardDedupIdempotent ==
    [][probe'.fn = "dedup" =>
          /\ (\A x, y \in InScope(final_structured, probe'.scope) :
                  x # y => NormalizedKey(x) # NormalizedKey(y))
             => /\ final_structured' = final_structured
                /\ probe'.deleted[Len(probe'.deleted)] = 0
          /\ Len(probe'.deleted) = 2
             => /\ final_structured' = final_structured
                /\ probe'.deleted[2] = 0]_vars

\* a second run deleted nothing after the first had deleted rows and left
\* more than one
C16_Witness ==
    /\ probe.fn = "dedup" /\ Len(probe.deleted) = 2
    /\ probe.deleted[1] > 0 /\ probe.deleted[2] = 0
    /\ Cardinality(InScope(final_structured, probe.scope)) >= 2

\* C19: the hard dedup of a scope keeps, of the scope's rows, exactly those
\* with the lowest sl_no among the rows of their normalized key, and leaves
\* every row outside the scope.
C19_KeepsLowestOfEachGroup ==
    [][probe'.fn = "dedup" =>
          /\ final_structured' \subseteq final_structured
          /\ final_structured \ InScope(final_structured, probe'.scope)
                \subseteq final_structured'
          /\ \A x \in InScope(final_structured, probe'.scope) :
                x \in final_structured' <=>
                    \A y \in InScope(final_structured, probe'.scope) :
                        NormalizedKey(y) = NormalizedKey(x) => x.sl_no <= y.sl_no]_vars

\* a run removed two repeated rows and left two, the oldest row among them
C19_Witness ==
    /\ probe.fn = "dedup" /\ probe.deleted = <<2>>
    /\ Cardinality(InScope(final_structured, probe.scope)) = 2
    /\ \E x \in InScope(final_structured, probe.scope) : x.sl_no = 1

----------------------------------------------------------------------------
(* Persisted rates after a change of rates or mappings *)

\* what the resolution of get_structured_data yields for a row of the tables db
ResolvedRate(db, r) ==
    Let(RowDictWide(r), LAMBDA row : RowRate(build_forex_cache(db, {row}), row))

\* C17: after a step that changes forex_master, entity_forex_rates or
\* code_master, every final_structured row for which the resolution yields a
\* rate under its current categories and the current rates holds that rate as
\* Avg_Fx_Rt and its amount times that rate as transactionAmountUSD.
C17_RatesFollowChanges ==
    [][(\/ entity_forex_rates' # entity_forex_rates
        \/ forex_master' # forex_master
        \/ code_master' # code_master)
       => \A r \in final_structured' :
             \A rate \in {ResolvedRate(DB', r)} :
                 ~IsNone(rate) => /\ r.Avg_Fx_Rt = rate
                                  /\ r.transactionAmountUSD =
                                         AmountUSD(r.transactionAmount, rate)]_vars

----------------------------------------------------------------------------
(* rawData after the uploads have finished *)

\* C18: when no upload is running, rawData holds at most one row for an
\* entity, month label, year and normalized particular.
C18_OneRawRowPerParticular ==
    (\A id \in DOMAIN req : req[id].pc = "done")
    => \A a, b \in rawData :
          (/\ a.EntityID = b.EntityID /\ Norm(a.Month) = Norm(b.Month)
           /\ a.Year = b.Year /\ Norm(a.Particular) = Norm(b.Particular))
          => a = b

----------------------------------------------------------------------------
(* The rates of a batch of rows: GET /data *)

MaxBatchRows == 3    \* the batch holds rows with sl_no 1 .. MaxBatchRows

\* _apply_forex_rates(rows, forex_cache): the Avg_Fx_Rt each row of the batch
\* gets; its lookups and its rate branch are those of
\* _calculate_and_save_forex_rates
apply_forex_rates(cache, rows) ==
    {[sl_no |-> row.sl_no, avg_fx_rt |-> RowRate(cache, row)] : row \in rows}

\* entity_forex_rates records as set_entity_fy_forex writes them
BatchEntityRates ==
    {[entity_id |-> 1, currency |-> "EUR", financial_year |-> <<2024, 25>>,
      opening_rate |-> Some(180), closing_rate |-> Some(184)],
     [entity_id |-> 1, currency |-> "EUR", financial_year |-> <<2025, 26>>,
      opening_rate |-> Some(180), closing_rate |-> Some(184)],
     [entity_id |-> 2, currency |-> "EUR", financial_year |-> <<2024, 25>>,
      opening_rate |-> Some(170), closing_rate |-> Some(174)]}

\* forex_master as create_forex and create_entity write it
BatchLegacyTables ==
    {{}, {[fx_id |-> 1, currency |-> "EUR", initial_rate |-> None,
            latest_rate |-> None, month |-> NULLT,
            updated_at |-> today]}}
    \cup {{[fx_id |-> 1, currency |-> c, initial_rate |-> Some(160),
            latest_rate |-> Some(168), month |-> "April",
            updated_at |-> today]} : c \in {"EUR", "EURIN", "USD"}}

\* the final_structured row with sl_no n of an entity, with its categories
BatchRow(n, ent_code, coa) ==
    StructuredRow([ids |-> [sl_no |-> n]],
                  [particular |-> "Cash", ent_code |-> ent_code,
                   local_currency_code |-> "EUR", year |-> 2024,
                   selectedMonth |-> "April", month |-> "April", coa |-> coa,
                   amt_tb_lc |-> Some(7000)])

BatchKinds ==
    {<<e.ent_code, c>> : e \in entity_master,
                         c \in {CatBalanceSheet, CatProfitLoss, NoCategories}}

BatchTables ==
    {{BatchRow(n, t[n][1], t[n][2]) : n \in {k \in 1..MaxBatchRows : t[k] \in BatchKinds}} :
        t \in [1..MaxBatchRows -> BatchKinds \cup {<<>>}]}

InitDisplay ==
    /\ rawData = {} /\ code_master = {}
    /\ final_structured \in BatchTables
    /\ forex_master \in BatchLegacyTables
    /\ entity_forex_rates \in SUBSET BatchEntityRates
    /\ next_id = [sl_no |-> MaxBatchRows + 1, RecordID |-> 1, code_id |-> 1, fx_id |-> 2]
    /\ entities = InitialEntities
    /\ financial_years = financial_year_master
    /\ req = <<>>
    /\ snap = [s \in Scopes |-> NoSnap]
    /\ probe = NoProbe

\* GET /data without filters: the cache is built from all rows and applied to
\* them in memory; probe keeps the rates of the response
Display ==
    /\ probe = NoProbe
    /\ \E data \in {{RowDictWide(r) : r \in final_structured}} :
          \E forex_cache \in {build_forex_cache(DB, data)} :
             probe' = [fn |-> "display", rates |-> apply_forex_rates(forex_cache, data)]
    /\ UNCHANGED <<rawData, final_structured, code_master, forex_master,
                   entity_forex_rates, next_id, masters, req, snap>>

NextDisplay == Display

SpecDisplay == InitDisplay /\ [][NextDisplay]_vars

\* the row has no entity_forex_rates record of its own entity and currency for
\* its financial year, the next or the previous one
NoOwnEntityRate(r) ==
    ResolveEntityRate(entity_forex_rates, Val(EntityIdOfCode(r.entityCode)),
                      r.localCurrencyCode, r.Year) = <<>>

\* the rate the legacy table gives the row: from the latest forex_master row of
\* the currency, else of the currency with IN, else of USDIN, else of USD
LegacyRate(r) ==
    Let(FirstLegacyRow(forex_master, LegacyVariants(r.localCurrencyCode)), LAMBDA found :
        IF found = <<>> THEN None
        ELSE EffectiveRate(is_pl(r.mainCategory, r.category1),
                           [opening_rate |-> found[1].initial_rate,
                            closing_rate |-> found[1].latest_rate,
                            initial_rate |-> found[1].initial_rate,
                            latest_rate |-> found[1].latest_rate]))

\* C20: in the rates of a batch, a categorized row without an entity rate of
\* its own for which the legacy table has a rate gets that legacy rate,
\* whatever other rows the batch holds.
C20_LegacyFallbackPerRow ==
    probe.fn = "display" =>
        \A r \in final_structured :
            (~IsBlank(r.mainCategory) /\ NoOwnEntityRate(r) /\ ~IsNone(LegacyRate(r)))
            => \E u \in probe.rates : u.sl_no = r.sl_no /\ u.avg_fx_rt = LegacyRate(r)

----------------------------------------------------------------------------
(* Entity rate lookup: the record the cache holds and the record a row takes *)

MaxLookupRows == 2    \* the batch holds rows with sl_no 1 .. MaxLookupRows

\* entity_forex_rates records of three consecutive financial years; every
\* record has rates of its own
LookupEntityRates ==
    {[entity_id |-> 1, currency |-> "EUR", financial_year |-> format_financial_year(y),
      opening_rate |-> Some(2 * (y - 2000)), closing_rate |-> Some(2 * (y - 2000) + 4)] :
        y \in {2023, 2024, 2025}}
    \cup {[entity_id |-> 2, currency |-> "EUR", financial_year |-> <<2024, 25>>,
           opening_rate |-> Some(170), closing_rate |-> Some(174)]}

\* the final_structured row with sl_no n of an entity and a year
LookupRow(n, ent_code, year) ==
    StructuredRow([ids |-> [sl_no |-> n]],
                  [particular |-> "Cash", ent_code |-> ent_code,
                   local_currency_code |-> "EUR", year |-> year,
                   selectedMonth |-> "April", month |-> "April", coa |-> CatBalanceSheet,
                   amt_tb_lc |-> Some(7000)])

LookupKinds == {<<e.ent_code, y>> : e \in entity_master, y \in {2024, 2025, 2026}}

LookupTables ==
    {{LookupRow(n, t[n][1], t[n][2]) : n \in {k \in 1..MaxLookupRows : t[k] \in LookupKinds}} :
        t \in [1..MaxLookupRows -> LookupKinds \cup {<<>>}]}

InitLookup ==
    /\ rawData = {} /\ code_master = {}
    /\ final_structured \in LookupTables
    /\ forex_master = {}
    /\ entity_forex_rates \in SUBSET LookupEntityRates
    /\ next_id = [sl_no |-> MaxLookupRows + 1, RecordID |-> 1, code_id |-> 1, fx_id |-> 1]
    /\ entities = InitialEntities
    /\ financial_years = financial_year_master
    /\ req = <<>>
    /\ snap = [s \in Scopes |-> NoSnap]
    /\ probe = NoProbe

\* the cache is built from all rows, then every row looks its entry up; probe
\* keeps the entry each row takes
LookupBatch ==
    /\ probe = NoProbe
    /\ \E data \in {{RowDictWide(r) : r \in final_structured}} :
          \E forex_cache \in {build_forex_cache(DB, data)} :
             probe' = [fn |-> "lookup",
                       taken |-> {[sl_no |-> row.sl_no,
                                   entry |-> RowCacheEntry(forex_cache, row)] : row \in data}]
    /\ UNCHANGED <<rawData, final_structured, code_master, forex_master,
                   entity_forex_rates, next_id, masters, req, snap>>

NextLookup == LookupBatch

SpecLookup == InitLookup /\ [][NextLookup]_vars

\* the entity_forex_rates records of a row's entity and currency for a year
RecordsFor(r, year) ==
    {x \in entity_forex_rates :
        /\ Some(x.entity_id) = EntityIdOfCode(r.entityCode)
        /\ x.currency = r.localCurrencyCode
        /\ x.financial_year = format_financial_year(year)}

\* the records of the first year, in the order own year, year + 1, year - 1,
\* that has any
PreferredRecords(r) ==
    IF RecordsFor(r, r.Year) # {} THEN RecordsFor(r, r.Year)
    ELSE IF RecordsFor(r, r.Year + 1) # {} THEN RecordsFor(r, r.Year + 1)
    ELSE RecordsFor(r, r.Year - 1)

\* C21: every row takes the rates of the entity record of its own financial
\* year, else of the next year, else of the previous year, and takes none when
\* there is no such record; the record is the one the cache-building step
\* resolved for the row's entity, currency and year.
C21_EntityLookupOrder ==
    probe.fn = "lookup" =>
        \A r \in final_structured : \E t \in probe.taken :
            /\ t.sl_no = r.sl_no
            /\ IF PreferredRecords(r) = {} THEN t.entry = <<>>
               ELSE /\ t.entry # <<>>
                    /\ \E x \in PreferredRecords(r) :
                          /\ t.entry[1].opening_rate = x.opening_rate
                          /\ t.entry[1].closing_rate = x.closing_rate
            /\ \A res \in {ResolveEntityRate(entity_forex_rates,
                                             Val(EntityIdOfCode(r.entityCode)),
                                             r.localCurrencyCode, r.Year)} :
                  IF res = <<>> THEN t.entry = <<>>
                  ELSE /\ t.entry # <<>>
                       /\ t.entry[1].opening_rate = res[1].rates.opening_rate
                       /\ t.entry[1].closing_rate = res[1].rates.closing_rate

\* a row took the record of the next year while the batch also resolved a
\* row of that year, and the record of the previous year exists as well
C21_Witness ==
    /\ probe.fn = "lookup"
    /\ \E r, q \in final_structured :
          /\ r.entityCode = "E1" /\ q.entityCode = "E1" /\ q.Year = r.Year + 1
          /\ RecordsFor(r, r.Year) = {}
          /\ RecordsFor(r, r.Year + 1) # {} /\ RecordsFor(r, r.Year - 1) # {}
          /\ \E t \in probe.taken, x \in RecordsFor(r, r.Year + 1) :
                t.sl_no = r.sl_no /\ t.entry # <<>>
                /\ t.entry[1].opening_rate = x.opening_rate

----------------------------------------------------------------------------
(* The rate convention on a record that lacks a rate *)

\* the rates of a forex_master row as create_forex and upsert_forex accept
\* them: either may be NULL
InitOneRate ==
    /\ rawData = {} /\ final_structured = {} /\ code_master = {}
    /\ forex_master = {} /\ entity_forex_rates = {}
    /\ next_id = [sl_no |-> 1, RecordID |-> 1, code_id |-> 1, fx_id |-> 1]
    /\ entities = InitialEntities
    /\ financial_years = financial_year_master
    /\ req = <<>>
    /\ snap = [s \in Scopes |-> NoSnap]
    /\ \E m \in RateMainCategories, c \in RateCategory1s,
          o \in {None, Some(160)}, l \in {None, Some(168)} :
          probe = [fn |-> "rate", mainCategory |-> m, category1 |-> c,
                   fx |-> [opening_rate |-> o, closing_rate |-> l,
                           initial_rate |-> o, latest_rate |-> l],
                   applied |-> FALSE, rate |-> None]

SpecOneRate == InitOneRate /\ [][NextRate]_vars

\* C22: a Profit-and-Loss row whose record has exactly one of the initial and
\* the latest rate gets that rate.
C22_SingleRateUsed ==
    (probe.fn = "rate" /\ probe.applied /\ ClassifiedPL)
    => /\ (~IsNone(probe.fx.initial_rate) /\ IsNone(probe.fx.latest_rate))
            => probe.rate = probe.fx.initial_rate
       /\ (IsNone(probe.fx.initial_rate) /\ ~IsNone(probe.fx.latest_rate))
            => probe.rate = probe.fx.latest_rate

----------------------------------------------------------------------------
(* Upload: the file of the request *)

MaxFileSlNo == 3    \* uploads start while the next sl_no is at most this

\* the statements of delete_existing_data_for_entity_month_year
DeleteSteps ==
    {"raw_count", "raw_delete", "raw_verify", "raw_retry", "raw_verify2",
     "fs_count", "fs_delete", "fs_verify"}

\* the locals of a request with its file: readable is FALSE for a file that
\* pd.read_excel raises on
NewFileRequest(ent_id, month_name, year, new_company, sheet, readable) ==
    NewRequest(ent_id, month_name, year, new_company, sheet) @@ [readable |-> readable]

\* one statement of upload_file, pd.read_excel included: the read follows the
\* delete step, and a file that cannot be read returns 400 there
upload_file_step(db, r) ==
    Let(upload_step(db, r), LAMBDA s :
        IF r.pc \in DeleteSteps /\ s.r.pc \notin DeleteSteps /\ ~r.readable
        THEN [db |-> s.db, r |-> [r EXCEPT !.pc = "done"]]
        ELSE s)

\* upload_file run to its end with no other request
RECURSIVE RunUploadFile(_, _)
RunUploadFile(db, r) ==
    IF r.pc = "done" THEN db
    ELSE CHOOSE d \in {RunUploadFile(s.db, s.r) : s \in {upload_file_step(db, r)}} : TRUE

\* requests with a readable file, a request whose file cannot be read, and
\* requests without an entity, without a month, without a year, for an unknown
\* entity, for a month before and for a month after the active financial year
FileRequests ==
    {<<e, "April", 2024, n, s, TRUE>> : e \in {1, 2}, n \in {0, 1}, s \in {SheetA, SheetB}}
    \cup {<<1, "April", 2024, 0, <<>>, FALSE>>}
    \cup {<<0, "April", 2024, 0, SheetB, TRUE>>, <<1, "", 2024, 0, SheetB, TRUE>>,
          <<1, "April", 0, 0, SheetB, TRUE>>, <<9, "April", 2024, 0, SheetB, TRUE>>,
          <<1, "March", 2024, 0, SheetB, TRUE>>, <<1, "April", 2025, 0, SheetB, TRUE>>}

\* POST /upload with no other upload in flight; probe keeps the request and
\* whether the validation accepted it
UploadFile(ent_id, month_name, year, new_company, sheet, readable) ==
    /\ req = <<>>
    /\ next_id.sl_no <= MaxFileSlNo
    /\ \E d \in {RunUploadFile(DB, NewFileRequest(ent_id, month_name, year, new_company,
                                                  sheet, readable))} :
          SetDB(d)
    /\ probe' = [fn |-> "upload_file", ent_id |-> ent_id, month_name |-> month_name,
                 year |-> year, readable |-> readable,
                 accepted |-> UploadAccepted(ent_id, month_name, year)]
    /\ UNCHANGED <<req, snap>>

NextFile == \E u \in FileRequests : UploadFile(u[1], u[2], u[3], u[4], u[5], u[6])

SpecFile == Init /\ [][NextFile]_vars

\* C23: an upload whose file cannot be read as a spreadsheet leaves rawData
\* and final_structured as they were: nothing is deleted and nothing is written
C23_UnreadableFileLeavesTables ==
    [][(probe'.fn = "upload_file" /\ ~probe'.readable)
          => (rawData' = rawData /\ final_structured' = final_structured)]_vars

\* the request lacks an entity, a month or a year, names an unknown entity, or
\* its month starts outside the active financial year that holds today
RejectedRequest(p) ==
    \/ p.ent_id = 0 \/ p.month_name = "" \/ p.year = 0
    \/ get_entity_details(p.ent_id) = <<>>
    \/ ~\E f \in ActivePeriodsHolding(financial_year_master, today) :
           /\ DateLE(f.start_date, upload_date(p.month_name, p.year))
           /\ DateLE(upload_date(p.month_name, p.year), f.end_date)

\* C24: an upload rejected by the validation (a missing entity, month or year,
\* an unknown entity, a month outside the financial-year policy) leaves rawData
\* and final_structured exactly as they were before the request
C24_RejectedUploadLeavesTables ==
    [][(probe'.fn = "upload_file" /\ RejectedRequest(probe'))
          => (rawData' = rawData /\ final_structured' = final_structured)]_vars

\* a request of each rejected kind arrived while both tables held rows
C24_Witness ==
    /\ probe.fn = "upload_file" /\ RejectedRequest(probe) /\ ~probe.accepted
    /\ probe.ent_id = 1 /\ probe.year = 2025
    /\ rawData # {} /\ final_structured # {}

----------------------------------------------------------------------------
(* Upload: the period policy under a changing financial-year master *)

MaxPeriodSlNo == 1    \* uploads start while the next sl_no is at most this

PeriodRequests == {<<1, m, y, 0, SheetB>> : m \in {"March", "April"}, y \in {2024, 2025}}

\* POST /upload with no other upload in flight, validated against the
\* financial years of the moment
UploadInPeriod(ent_id, month_name, year, new_company, sheet) ==
    /\ req = <<>>
    /\ next_id.sl_no <= MaxPeriodSlNo
    /\ \E accepted \in {UploadAcceptedIn(financial_years, ent_id, month_name, year)} :
          /\ \E d \in {RunUpload(DB, [NewRequest(ent_id, month_name, year, new_company, sheet)
                                        EXCEPT !.pc = IF accepted THEN "raw_count"
                                                      ELSE "done"])} :
                SetDB(d)
          /\ probe' = [fn |-> "upload_period", month_name |-> month_name, year |-> year,
                       accepted |-> accepted]
    /\ UNCHANGED <<req, snap>>

NextPeriod ==
    \/ \E l \in FyLabels, s \in FyDates, e \in FyDates, a \in BOOLEAN :
          CreateFinancialYear(l, s, e, a)
    \/ \E i \in 1..MaxFyRows, s \in OptionalDates, e \in OptionalDates, a \in OptionalFlags :
          UpdateFinancialYear(i, s, e, a)
    \/ \E i \in 1..MaxFyRows : DeleteFinancialYear(i)
    \/ \E u \in PeriodRequests : UploadInPeriod(u[1], u[2], u[3], u[4], u[5])

SpecPeriod == InitFy /\ [][NextPeriod]_vars

\* C25: an upload that reaches the delete-and-reinsert steps (it writes rows)
\* is for a month whose first day lies inside the active financial-year period
\* that contains today's date
C25_AcceptedInsideCurrentPeriod ==
    [][(next_id'.sl_no # next_id.sl_no)
          => \E f \in ActivePeriodsHolding(financial_years, today) :
                /\ DateLE(f.start_date, upload_date(probe'.month_name, probe'.year))
                /\ DateLE(upload_date(probe'.month_name, probe'.year), f.end_date)]_vars

----------------------------------------------------------------------------
(* Upload: the verification of the delete step *)

\* the rows the request's count queries see
RawScopeRows(r) == {x \in rawData : InRawScope(x, r.ent_id, r.month_name, r.year)}
StructuredScopeRows(r) ==
    {x \in final_structured :
        InStructuredScope(x, entity_details(r).ent_code, r.month_name, r.year)}

\* C26: in the delete step of an upload, for rawData and for final_structured,
\* a verification that still finds rows of the scope is followed by a second
\* delete, not by the processing of the rows
C26_DeleteRetriedForBothTables ==
    [][\A id \in DOMAIN req :
          /\ (req[id].pc = "raw_verify" /\ req'[id].pc # "raw_verify"
                 /\ RawScopeRows(req[id]) # {})
                => req'[id].pc = "raw_retry"
          /\ (req[id].pc = "fs_verify" /\ req'[id].pc # "fs_verify"
                 /\ StructuredScopeRows(req[id]) # {})
                => req'[id].pc \in DeleteSteps]_vars

----------------------------------------------------------------------------
(* Legacy rates: the history of a currency *)

MaxLegacyFxId == 4    \* legacy rows are created while the next fx_id is at most this

\* the days on which the rows of the initial tables were written
LegacyDays == {<<2024, 6, 14>>, today}

\* a row as create_forex and upsert_forex write it, written on the day given
LegacyRow(n, currency, complete, day) ==
    [fx_id |-> n, currency |-> currency, initial_rate |-> Some(160),
     latest_rate |-> IF complete THEN Some(168) ELSE None,
     month |-> IF complete THEN "April" ELSE NULLT, updated_at |-> day]

\* forex_master after at most two requests; a later row has no earlier day
LegacyTables ==
    {{}}
    \cup {{LegacyRow(1, c, k, d)} : c \in {"EUR", "USD"}, k \in BOOLEAN, d \in LegacyDays}
    \cup {{LegacyRow(1, c1, k1, dd[1]), LegacyRow(2, c2, k2, dd[2])} :
            c1 \in {"EUR", "USD"}, k1 \in BOOLEAN, c2 \in {"EUR", "USD"}, k2 \in BOOLEAN,
            dd \in {x \in LegacyDays \X LegacyDays : DateLE(x[1], x[2])}}

InitLegacy ==
    /\ rawData = {} /\ final_structured = {} /\ code_master = {}
    /\ forex_master \in LegacyTables
    /\ entity_forex_rates = {}
    /\ next_id = [sl_no |-> 1, RecordID |-> 1, code_id |-> 1, fx_id |-> 3]
    /\ entities = InitialEntities
    /\ financial_years = financial_year_master
    /\ req = <<>>
    /\ snap = [s \in Scopes |-> NoSnap]
    /\ probe = NoProbe

\* POST /forex; probe keeps the request and the last_row of the response
CreateLegacyRate(currency, initial_rate, latest_rate, month) ==
    /\ next_id.fx_id <= MaxLegacyFxId
    /\ \E d \in {create_forex(DB, currency, initial_rate, latest_rate, month)} :
          /\ SetDB(d)
          /\ probe' = [fn |-> "forex", currency |-> currency, initial_rate |-> initial_rate,
                       latest_rate |-> latest_rate, month |-> month,
                       last_row |-> get_latest_row_for_currency(d.fx, currency)]
    /\ UNCHANGED <<req, snap>>

\* PUT /forex/<currency>; probe keeps the request and the last_row of the response
UpsertLegacyRate(currency, initial_rate, latest_rate, month) ==
    /\ next_id.fx_id <= MaxLegacyFxId
    /\ \E d \in {upsert_forex(DB, currency, initial_rate, latest_rate, month)} :
          /\ SetDB(d)
          /\ probe' = [fn |-> "forex", currency |-> currency, initial_rate |-> initial_rate,
                       latest_rate |-> latest_rate, month |-> month,
                       last_row |-> get_latest_row_for_currency(d.fx, currency)]
    /\ UNCHANGED <<req, snap>>

NextLegacy ==
    \/ \E c \in {"EUR", "USD", ""}, i \in {None, Some(162)}, l \in {None, Some(170)},
          m \in {NULLT, "May"} : CreateLegacyRate(c, i, l, m)
    \/ \E c \in {"EUR", "USD", ""}, i \in {None, Some(162)}, l \in {None, Some(170)},
          m \in {NULLT, "May"} : UpsertLegacyRate(c, i, l, m)

SpecLegacy == InitLegacy /\ [][NextLegacy]_vars

\* the request names a currency and a rate, and a month with a latest rate
RateRequestComplete(p) ==
    /\ p.currency # ""
    /\ ~IsNone(p.initial_rate) \/ ~IsNone(p.latest_rate)
    /\ ~IsNone(p.latest_rate) => p.month = "May"

\* the row is the one of its currency with the greatest updated_at and, among
\* those of that day, the greatest fx_id
NewestOfCurrency(fx, row) ==
    /\ row \in fx
    /\ \A q \in {x \in fx : x.currency = row.currency} :
          \/ q.updated_at # row.updated_at /\ DateLE(q.updated_at, row.updated_at)
          \/ q.updated_at = row.updated_at /\ q.fx_id <= row.fx_id

\* C27: the legacy rate table is append-only: a create or update request adds
\* a row and never changes or removes one, and the read for a currency returns
\* the row of the greatest updated_at, the greatest fx_id among equal ones
C27_LegacyAppendOnly ==
    [][/\ forex_master \subseteq forex_master'
       /\ (probe'.fn = "forex" /\ RateRequestComplete(probe'))
             => /\ forex_master' # forex_master
                /\ probe'.last_row # <<>>
       /\ (probe'.fn = "forex" /\ probe'.last_row # <<>>)
             => /\ probe'.last_row[1].currency = probe'.currency
                /\ NewestOfCurrency(forex_master', probe'.last_row[1])]_vars

\* a request was answered with its new row while the currency had two older
\* rows, one of them of an earlier day
C27_Witness ==
    /\ probe.fn = "forex" /\ probe.last_row # <<>>
    /\ probe.last_row[1].fx_id >= 3
    /\ Cardinality({q \in forex_master : q.currency = probe.currency}) >= 3
    /\ \E q \in forex_master : q.currency = probe.currency /\ q.updated_at # today

----------------------------------------------------------------------------
(* Upload: a line whose processing raises *)

MaxErrorRecordId == 3    \* uploads start while the next RecordID is at most this

\* the upload stops at the first line that raises
AfterRowError_Abort(r, kind) == [r EXCEPT !.pc = "done"]

\* the except branches of the loop: after a failed Opening insert the
\* Transaction cell of the line is next, after a failed Transaction insert and
\* after `except Exception as row_error: ... continue` the next line is
AfterRowError(r, kind) ==
    IF kind = "Opening" THEN EnterTransaction(r) ELSE NextLine(r)

\* the locals of a request whose statements named in failing raise: <<i, "row">>
\* is the category lookup of line i, <<i, "Opening">> and <<i, "Transaction">>
\* are the INSERT of that row; errors is the list the response reports, visited
\* the lines the loop has entered
NewFailingRequest(ent_id, month_name, year, new_company, sheet, failing) ==
    Let(NewRequest(ent_id, month_name, year, new_company, sheet), LAMBDA r :
        r @@ [failing |-> failing, errors |-> {}, dedup_ran |-> FALSE,
              visited |-> IF r.pc = "raw_check" THEN {r.idx} ELSE {}])

\* errors.append(error_msg) and the branch after it
RaiseAt(r, kind) ==
    Let([r EXCEPT !.errors = @ \cup {<<r.idx, kind>>}], LAMBDA e : AfterRowError(e, kind))

\* one statement of upload_file, the statement raising if failing names it
upload_step_raising(db, r) ==
    Let(IF r.pc = "coa" /\ <<r.idx, "row">> \in r.failing
        THEN [db |-> db, r |-> RaiseAt(r, "row")]
        ELSE IF r.pc = "o_insert" /\ <<r.idx, "Opening">> \in r.failing
        THEN [db |-> db, r |-> RaiseAt(r, "Opening")]
        ELSE IF r.pc = "t_insert" /\ <<r.idx, "Transaction">> \in r.failing
        THEN [db |-> db, r |-> RaiseAt(r, "Transaction")]
        ELSE upload_step(db, r),
        LAMBDA s :
            [db |-> s.db,
             r  |-> [s.r EXCEPT !.visited = IF s.r.pc = "raw_check" THEN @ \cup {s.r.idx}
                                            ELSE @,
                                !.dedup_ran = @ \/ r.pc = "dedup"]])

\* upload_file run to its end: the database and the locals at the response
RECURSIVE RunUploadRaising(_, _)
RunUploadRaising(db, r) ==
    IF r.pc = "done" THEN [db |-> db, r |-> r]
    ELSE CHOOSE d \in {RunUploadRaising(s.db, s.r) : s \in {upload_step_raising(db, r)}} : TRUE

\* at most one raising statement per upload, in the first two lines
FailingSets ==
    {{}} \cup {{<<i, k>>} : i \in 1..2, k \in {"row", "Opening", "Transaction"}}

ErrorRequests ==
    {<<1, "April", 2024, n, s, f>> :
        n \in {0, 1}, s \in {SheetA, SheetB, SheetC}, f \in FailingSets}

\* POST /upload with no other upload in flight; probe keeps the request, the
\* lines the loop entered, whether the de-duplication ran and the response
UploadRaising(ent_id, month_name, year, new_company, sheet, failing) ==
    /\ req = <<>>
    /\ next_id.RecordID <= MaxErrorRecordId
    /\ UploadAccepted(ent_id, month_name, year)
    /\ \E s \in {RunUploadRaising(DB, NewFailingRequest(ent_id, month_name, year,
                                                        new_company, sheet, failing))} :
          /\ SetDB(s.db)
          /\ probe' = [fn |-> "upload_raising", ent_id |-> ent_id,
                       month_name |-> month_name, year |-> year,
                       new_company |-> new_company, sheet |-> sheet,
                       failing |-> failing, visited |-> s.r.visited,
                       dedup_ran |-> s.r.dedup_ran,
                       response |-> [status |-> 200, success |-> TRUE,
                                     warnings |-> s.r.errors]]
    /\ UNCHANGED <<req, snap>>

NextErrors ==
    \E u \in ErrorRequests : UploadRaising(u[1], u[2], u[3], u[4], u[5], u[6])

SpecErrors == Init /\ [][NextErrors]_vars

\* the lines of the sheet that have a particular
LinesWithParticular(sheet) == {i \in 1..Len(sheet) : sheet[i].Particular # ""}

\* the upload wrote (or found) the month row of line i
MonthRowOfLine(fs, p, i) ==
    \E x \in fs :
        /\ Norm(x.Particular) = Norm(Str(Strip(Chars[p.sheet[i].Particular])))
        /\ x.Year = p.year /\ x.Month = p.month_name /\ x.selectedMonth = p.month_name
        /\ x.transactionAmount = SignedAmount(p.sheet[i].Transaction)

----------------------------------------------------------------------------
(* Upload: the rows of the other scopes *)

MaxScopeSlNo == 3    \* uploads start while the next sl_no is at most this

\* uploads for two entities and two months of the active financial year
ScopeRequests ==
    {<<e, m, 2024, n, s>> :
        e \in {1, 2}, m \in {"April", "May"}, n \in {0, 1}, s \in {SheetA, SheetB}}

\* a mapping for Cash and a legacy EUR rate are in place, no ledger rows
InitScope ==
    /\ rawData = PreparedDB.raw
    /\ final_structured = PreparedDB.fs
    /\ code_master = PreparedDB.cm
    /\ forex_master = PreparedDB.fx
    /\ entity_forex_rates = PreparedDB.efr
    /\ next_id = PreparedDB.ids
    /\ entities = InitialEntities
    /\ financial_years = financial_year_master
    /\ req = <<>>
    /\ snap = [s \in Scopes |-> NoSnap]
    /\ probe = NoProbe

\* POST /upload with no other upload in flight; probe keeps the scope
UploadScope(ent_id, month_name, year, new_company, sheet) ==
    /\ req = <<>>
    /\ next_id.sl_no <= MaxScopeSlNo
    /\ UploadAccepted(ent_id, month_name, year)
    /\ \E d \in {RunUpload(DB, NewRequest(ent_id, month_name, year, new_company, sheet))} :
          SetDB(d)
    /\ probe' = [fn |-> "upload_scope", ent_id |-> ent_id,
                 ent_code |-> get_entity_details(ent_id)[1].ent_code,
                 month_name |-> month_name, year |-> year]
    /\ UNCHANGED <<req, snap>>

NextScope == \E u \in ScopeRequests : UploadScope(u[1], u[2], u[3], u[4], u[5])

SpecScope == InitScope /\ [][NextScope]_vars

\* the rawData rows of another entity, month or year than the upload's
OtherRawRows(raw, p) ==
    {x \in raw : x.EntityID # p.ent_id \/ x.Month # p.month_name \/ x.Year # p.year}

\* the final_structured rows of another entity, selected month or year
OtherStructuredRows(fs, p) ==
    {x \in fs : \/ x.entityCode # p.ent_code \/ x.selectedMonth # p.month_name
                \/ x.Year # p.year}

\* C29: an upload for one (entity, month, year) leaves every rawData and
\* final_structured row of another entity, selected month or year as it was:
\* none is deleted, inserted or modified
C29_OtherScopesUntouched ==
    [][probe'.fn = "upload_scope"
          => /\ OtherRawRows(rawData', probe') = OtherRawRows(rawData, probe')
             /\ OtherStructuredRows(final_structured', probe')
                   = OtherStructuredRows(final_structured, probe')]_vars

\* the upload replaced the rows of its scope (RecordIDs are missing) while
\* rows of another scope, with rates from their own upload, are in both tables
C29_Witness ==
    /\ probe.fn = "upload_scope"
    /\ OtherRawRows(rawData, probe) # {}
    /\ \E x \in OtherStructuredRows(final_structured, probe) : ~IsNone(x.Avg_Fx_Rt)
    /\ \E x \in final_structured \ OtherStructuredRows(final_structured, probe) :
          ~IsNone(x.Avg_Fx_Rt)
    /\ Cardinality(rawData) < next_id.RecordID - 1
    /\ \A x \in rawData \ OtherRawRows(rawData, probe) :
          \A y \in OtherRawRows(rawData, probe) : y.RecordID < x.RecordID

----------------------------------------------------------------------------
(* Legacy rates: the recalculation against the row-by-row resolution *)

MaxRecalcFxId == 2    \* legacy rows are created while the next fx_id is at most this
MaxRecalcRows == 2    \* final_structured holds at most this many rows

\* a mapping whose mainCategory names P&L inside a longer label
CatPLItems ==
    [mainCategory |-> "P&L Items", category1 |-> "Income", category2 |-> NULLT,
     category3 |-> NULLT, category4 |-> NULLT, category5 |-> NULLT]

RecalcKinds == {CatBalanceSheet, CatProfitLoss, CatPLItems, NoCategories}

\* final_structured after an upload of EUR rows, before any rate exists
RecalcTables ==
    {{BatchRow(n, "E1", t[n]) : n \in {k \in 1..MaxRecalcRows : t[k] \in RecalcKinds}} :
        t \in [1..MaxRecalcRows -> RecalcKinds \cup {<<>>}]}

InitRecalc ==
    /\ rawData = {} /\ code_master = {}
    /\ final_structured \in RecalcTables
    /\ forex_master = {}
    /\ entity_forex_rates = {}
    /\ next_id = [sl_no |-> MaxRecalcRows + 1, RecordID |-> 1, code_id |-> 1, fx_id |-> 1]
    /\ entities = InitialEntities
    /\ financial_years = financial_year_master
    /\ req = <<>>
    /\ snap = [s \in Scopes |-> NoSnap]
    /\ probe = NoProbe

\* POST /forex; probe keeps the currency, whether a row was inserted and the
\* latest row of the currency
RecalcOnCreate(currency, initial_rate, latest_rate, month) ==
    /\ next_id.fx_id <= MaxRecalcFxId
    /\ \E d \in {create_forex(DB, currency, initial_rate, latest_rate, month)} :
          /\ SetDB(d)
          /\ probe' = [fn |-> "recalc", currency |-> currency,
                       accepted |-> d.fx # forex_master,
                       fx_row |-> get_latest_row_for_currency(d.fx, currency)]
    /\ UNCHANGED <<req, snap>>

\* PUT /forex/<currency>; probe as for POST /forex
RecalcOnUpsert(currency, initial_rate, latest_rate, month) ==
    /\ next_id.fx_id <= MaxRecalcFxId
    /\ \E d \in {upsert_forex(DB, currency, initial_rate, latest_rate, month)} :
          /\ SetDB(d)
          /\ probe' = [fn |-> "recalc", currency |-> currency,
                       accepted |-> d.fx # forex_master,
                       fx_row |-> get_latest_row_for_currency(d.fx, currency)]
    /\ UNCHANGED <<req, snap>>

NextRecalc ==
    \/ \E i \in {None, Some(160)}, l \in {None, Some(168)} :
          RecalcOnCreate("EUR", i, l, "April")
    \/ \E i \in {None, Some(164)}, l \in {None, Some(172)} :
          RecalcOnUpsert("EUR", i, l, "May")

SpecRecalc == InitRecalc /\ [][NextRecalc]_vars

\* cache[f"legacy_{curr}"] of _build_forex_cache for a forex_master row
LegacyEntry(fx_row) ==
    [initial_rate |-> fx_row.initial_rate, latest_rate |-> fx_row.latest_rate,
     opening_rate |-> fx_row.initial_rate, closing_rate |-> fx_row.latest_rate]

\* C30: after a legacy rate create or update, every categorized row of the
\* currency holds the Avg_Fx_Rt that the row-by-row resolution computes from
\* the latest legacy row (its former value where that resolution skips the row)
C30_RecalculationMatchesRowByRow ==
    [][(probe'.fn = "recalc" /\ probe'.accepted)
          => \A r \in final_structured :
                RecalcEligible(r, probe'.currency)
                   => \E q \in final_structured' :
                         /\ q.sl_no = r.sl_no
                         /\ q.Avg_Fx_Rt =
                               Let(EffectiveRate(is_pl(r.mainCategory, r.category1),
                                                 LegacyEntry(probe'.fx_row[1])),
                                   LAMBDA rate : IF IsNone(rate) THEN r.Avg_Fx_Rt
                                                 ELSE rate)]_vars

=============================================================================
